---------------------------- MODULE Spec2Model ----------------------------
(***************************************************************************)
(* Model of the core manager of P-BOX (backend/modules/core/service.go),   *)
(* of its sing-box configuration generator and HTTP handlers (proxy        *)
(* package), and of the configuration editor and the core-management page  *)
(* of the frontend.                                                        *)
(*                                                                         *)
(* Core manager, specification Spec.  The state is the Service object      *)
(* (currentCore, cores, downloadProgress, mu), the files it reads and      *)
(* writes under dataDir (core_status.json, the engine binaries,            *)
(* cores/download.tmp) and the calls that are in flight: DownloadCore      *)
(* calls, GetLatestVersions calls and the goroutines started by            *)
(* "go s.saveStatus()".  Every Lock/Unlock or RLock/RUnlock pair of the    *)
(* source that encloses only memory accesses is one atomic step, and every *)
(* blocking call (HTTP, file I/O) between two such sections is a step, so  *)
(* calls interleave at the points where the source holds no lock.  A step  *)
(* after which a call only runs its deferred function is taken together    *)
(* with the deferred function: what the step does (it fails without        *)
(* touching shared state, removes download.tmp or writes core_status.json) *)
(* and what the deferred function does (it clears Downloading) are         *)
(* independent of everything that could run between them.                  *)
(*                                                                         *)
(* Strings whose content the code inspects (versions, release tags) are    *)
(* sequences of characters; the empty string is << >>.                     *)
(*                                                                         *)
(* Generator, specification SpecGen.  GenerateConfig is a function of its  *)
(* arguments and of the order in which the Go runtime ranges over a map;   *)
(* the state is the arguments, the documents the calls returned and the    *)
(* files SaveConfig writes.  The initial states draw the arguments.        *)
(*                                                                         *)
(* Configuration editor, specification SpecEdit.  The state is the         *)
(* template the page ConfigGeneratorPage.tsx holds and the PUT request it  *)
(* has sent and not yet seen answered.  A dialog that is opened, filled in *)
(* and saved is one step: the dialog is modal and its state is local.      *)
(*                                                                         *)
(* HTTP handlers, specification SpecApi.  The bridge to the engine's       *)
(* controller and GetLogs keep no state of their own: a call is a function *)
(* of the request, of what the controller does and of the log buffer.  The *)
(* state is the last call with what it was given and what it answered.     *)
(*                                                                         *)
(* Core-management page, specification SpecPage.  The page posts a         *)
(* download, the handler starts DownloadCore on a goroutine, and the page  *)
(* polls GetDownloadProgress; the core manager is the one of Spec.         *)
(***************************************************************************)
EXTENDS Bags, FiniteSets, Integers, Sequences, TLC

\* ------------------------------------------------------------------ bounds
\* number of DownloadCore calls that can be in flight at the same time
NumDownloads == 2
\* number of Read calls that deliver the body of one archive
TotalChunks == 2
\* number of "go s.saveStatus()" goroutines that can be alive at once
MaxSavers == 2
\* number of calls of SwitchCore, GetLatestVersions and DownloadCore
MaxCalls == 3
\* number of nodes in the list passed to GenerateConfig
MaxNodes == 2
\* number of rules the editor's template can hold
MaxRules == 3
\* the most lines the log buffer holds
MaxLogLines == 2

\* ------------------------------------------------------------- constants
CoreTypeMihomo == "mihomo"
CoreTypeSingbox == "singbox"
\* the keys NewService puts into s.cores
Engines == {CoreTypeMihomo, CoreTypeSingbox}
\* values a caller can pass as coreType: the catalog keys and one other id
CoreTypes == Engines \cup {"other"}

NoVersion == << >>
Unknown == <<"unknown">>

\* error values (nil is "nil")
Nil == "nil"
\* no call of the operation has returned yet
NotCalled == ""
ErrUnknownCoreType == "unknown core type: %s"
ErrNotInstalled == "core %s is not installed"
ErrVersionNotFound == "version not found, please check latest version first"
ErrHTTPGet == "download failed: %v"
ErrHTTPStatus == "download failed: HTTP %d"
ErrCreate == "os.Create: %v"
ErrRead == "resp.Body.Read: %v"
ErrExtract == "extract failed: %v"

VARIABLES
    currentCore,        \* Service.currentCore
    cores,              \* Service.cores
    downloadProgress,   \* Service.downloadProgress
    mu,                 \* Service.mu
    statusFile,         \* <dataDir>/core_status.json
    bin,                \* <dataDir>/cores/<binName> per engine
    tmp,                \* <dataDir>/cores/download.tmp
    savers,             \* goroutines started by "go s.saveStatus()"
    dl,                 \* the DownloadCore calls in flight
    rf,                 \* the GetLatestVersions call
    calls,              \* number of calls made so far
    switchErr,          \* the error the last SwitchCore call returned
    \* the sing-box generator (proxy package, SingboxGenerator)
    nodes,              \* the nodes argument of GenerateConfig
    options,            \* the options argument of GenerateConfig
    document,           \* the *SingboxConfig the last GenerateConfig returned
    previous,           \* the one the call before it returned
    genErr,             \* the error the last GenerateConfig returned
    files,              \* the files under <dataDir>/configs, by path
    save,               \* the SaveConfig call
    \* the configuration editor (ConfigGeneratorPage.tsx)
    template,           \* the template state of the page
    request,            \* the PUT that waits for its response
    \* the HTTP handlers (proxy package, Handler)
    api,                \* the last handler call: what it was given and sent
    logBuffer,          \* the lines the service captured from the engine
    \* the core-management page (CoreManagePage.tsx) and the download handler
    page                \* per engine: the page's downloadCore call

\* the state of the core manager
coreVars == <<currentCore, cores, downloadProgress, mu, statusFile, bin, tmp,
              savers, dl, rf, calls, switchErr>>
\* the state of the generator
generatorVars == <<nodes, options, document, previous, genErr, files, save>>
\* the state of the configuration editor
editorVars == <<template, request>>
\* what no operation of the core manager touches
nonCoreVars == <<generatorVars, editorVars, api, logBuffer>>

vars == <<coreVars, generatorVars, editorVars, api, logBuffer, page>>

\* ------------------------------------------------------------------ files
\* A file that is absent or does not parse makes loadSavedStatus return early.
NoFile == [readable |-> FALSE, CurrentCore |-> "", Versions |-> << >>]

\* A binary is described by the release it was extracted from.
NoBin == [eng |-> "none", ver |-> NoVersion]
\* created by os.Create and not, or not completely, written by io.Copy
Truncated == [eng |-> "truncated", ver |-> NoVersion]
Release(e, v) == [eng |-> e, ver |-> v]

\* ------------------------------------------------------------- NewService
Core(name, path) ==
    [Name |-> name, Version |-> NoVersion, LatestVersion |-> NoVersion,
     Installed |-> FALSE, Path |-> path]

SeedCores ==
    [e \in Engines |->
        IF e = CoreTypeMihomo THEN Core("Mihomo", "cores/mihomo")
                              ELSE Core("sing-box", "cores/sing-box")]

\* loadSavedStatus applied to the freshly seeded service c
loadSavedStatus(c, saved) ==
    IF ~saved.readable THEN c
    ELSE [currentCore |-> IF saved.CurrentCore # "" THEN saved.CurrentCore
                          ELSE c.currentCore,
          cores |-> [e \in Engines |->
                        IF e \in DOMAIN saved.Versions
                        THEN [c.cores[e] EXCEPT
                                 !.Version = saved.Versions[e],
                                 !.Installed = (saved.Versions[e] # NoVersion)
                                               \/ c.cores[e].Installed]
                        ELSE c.cores[e]]]

\* getCoreVersion: run the binary and parse what it prints; a file that is
\* not a release of this engine cannot be run as one.
getCoreVersion(coreType, b, core) ==
    IF coreType \notin Engines THEN Unknown
    ELSE IF b.eng = coreType
         THEN (IF b.ver # NoVersion THEN b.ver ELSE Unknown)
         ELSE IF core.Version # NoVersion THEN core.Version ELSE Unknown

\* checkInstalledCores: os.Stat succeeds on every file that exists
checkInstalledCores(c, bins) ==
    [c EXCEPT !.cores =
        [e \in Engines |->
            IF bins[e] # NoBin
            THEN [c.cores[e] EXCEPT
                     !.Installed = TRUE,
                     !.Version = getCoreVersion(e, bins[e], c.cores[e])]
            ELSE c.cores[e]]]

NewService(saved, bins) ==
    checkInstalledCores(
        loadSavedStatus([currentCore |-> CoreTypeMihomo, cores |-> SeedCores],
                        saved),
        bins)

\* ---------------------------------------------------------------- mutex
\* s.mu is "unlocked" between the atomic sections.  It is "rlocked" for good
\* once a goroutine has panicked between RLock and RUnlock (getCoreDownloadURL
\* has no deferred RUnlock): the deferred Lock of DownloadCore then waits for
\* that read lock in the same goroutine, and a waiting writer blocks every
\* later RLock and Lock.
CanLock == mu = "unlocked"
CanRLock == mu = "unlocked"

\* ------------------------------------------------------------ observers
GetStatus == [CurrentCore |-> currentCore, Cores |-> cores]

ZeroProgress == [Downloading |-> FALSE, Progress |-> 0, Speed |-> 0, Error |-> ""]

\* lines 520-523 on the map progress
Lookup(progress, coreType) ==
    IF coreType \in DOMAIN progress THEN progress[coreType] ELSE ZeroProgress

GetDownloadProgress(coreType) == Lookup(downloadProgress, coreType)

\* ------------------------------------------------------------ saveStatus
\* lines 110-120: the snapshot taken under RLock
SavedCoreStatus ==
    [readable |-> TRUE,
     CurrentCore |-> currentCore,
     Versions |-> [n \in {e \in Engines : cores[e].Installed} |-> cores[n].Version]]

\* lines 122-128.  os.WriteFile is taken to succeed: both callers of
\* saveStatus discard the error it returns.
WriteFile(saved) == saved

SaverStart == [pc |-> "rlock", saved |-> NoFile]

\* -------------------------------------------------- releases/latest API
\* What http.Get and the JSON decoder can deliver: a transport error, a body
\* that is not JSON, or a JSON object.  An answer with a status other than
\* 200 (a rate-limit or server error object) has no tag_name.
NetErr == [err |-> "http.Get", status |-> 0, TagName |-> NoVersion]
BadJSON == [err |-> "json.Decode", status |-> 200, TagName |-> NoVersion]
ErrorObject == [err |-> Nil, status |-> 403, TagName |-> NoVersion]
ReleaseObject(tag) == [err |-> Nil, status |-> 200, TagName |-> tag]

TagNames == {<<"v", "2">>, <<"2">>}
Responses == {NetErr, BadJSON, ErrorObject} \cup {ReleaseObject(t) : t \in TagNames}

\* lines 273-278: drop the leading v
TrimV(version) ==
    IF Len(version) > 0 /\ version[1] = "v" THEN Tail(version) ELSE version

\* fetchMihomoLatestVersion and fetchSingboxLatestVersion have the same body
fetchLatestVersion(resp) ==
    IF resp.err # Nil THEN [version |-> NoVersion, err |-> resp.err]
    ELSE [version |-> TrimV(resp.TagName), err |-> Nil]

\* ------------------------------------------------- release downloads
\* getCoreDownloadURL without the test of line 478
getCoreDownloadURLAnyVersion(coreType) ==
    IF coreType \notin DOMAIN cores
    THEN [panic |-> TRUE, version |-> NoVersion, err |-> Nil]
    ELSE [panic |-> FALSE, version |-> cores[coreType].LatestVersion, err |-> Nil]

\* getCoreDownloadURL, lines 470-514.  s.cores[coreType] is nil for a key
\* that is not in the map, and reading a field of it panics (line 475).
getCoreDownloadURL(coreType) ==
    IF coreType \notin DOMAIN cores
    THEN [panic |-> TRUE, version |-> NoVersion, err |-> Nil]
    ELSE IF cores[coreType].LatestVersion = NoVersion
    THEN [panic |-> FALSE, version |-> NoVersion, err |-> ErrVersionNotFound]
    ELSE [panic |-> FALSE, version |-> cores[coreType].LatestVersion, err |-> Nil]

\* What http.Get(downloadURL) can deliver: a transport error, a status other
\* than 200, or the archive with or without a Content-Length.
GetErr == [err |-> ErrHTTPGet, StatusCode |-> 0, ContentLength |-> 0]
NotFound == [err |-> Nil, StatusCode |-> 404, ContentLength |-> 0]
Archive(length) == [err |-> Nil, StatusCode |-> 200, ContentLength |-> length]
Downloadables == {GetErr, NotFound, Archive(TotalChunks), Archive(-1)}

\* line 377
Percent(written, totalSize) == (written * 100) \div totalSize

\* out.Write at the offset of the handle; bytes skipped over are a hole
Hole == [eng |-> "hole", ver |-> NoVersion]
WriteAt(data, pos, chunk) ==
    [k \in 1..(IF pos > Len(data) THEN pos ELSE Len(data)) |->
        IF k = pos THEN chunk
        ELSE IF k <= Len(data) THEN data[k] ELSE Hole]

NoTmp == [exists |-> FALSE, data |-> << >>]

\* the release whose complete archive the file holds, NoBin if there is none
Content(file) ==
    IF /\ file.exists
       /\ Len(file.data) = TotalChunks
       /\ file.data[1] # Hole
       /\ \A k \in 1..TotalChunks : file.data[k] = file.data[1]
    THEN file.data[1] ELSE NoBin

\* extractCore, lines 416-468.  A .gz holds one file and is inflated as it
\* is; in a .tar.gz the member named sing-box is looked for, and only a
\* sing-box release has one.
Extractable(coreType, file) ==
    /\ Content(file) # NoBin
    /\ coreType # CoreTypeMihomo => Content(file).eng = CoreTypeSingbox

\* where an extractCore that fails does so: before or after its os.Create
ExtractFailures == {"failed before Create", "failed after Create"}

\* ------------------------------------------- the core-management page
\* downloadCore(coreType) of the page: not running (pc "idle") or in
\* waitForComplete (pc "polling"); spawned counts the goroutines the
\* download handler started for it that have yet to enter DownloadCore;
\* result is the toast of the last run
IdlePage == [pc |-> "idle", spawned |-> 0, result |-> ""]

\* ----------------------------------------------------------------- Init
IdleRefresh == [pc |-> "idle"]

\* ====================================================================
\* The sing-box generator
\* ====================================================================
\* ------------------------------------------------------------ JSON values
\* what json.Unmarshal puts into an interface{}
\* interface{}: t is the dynamic type (string, float64, bool, map), v the value
JSON(t, v) == [t |-> t, v |-> v]

\* a map without entries; nil and make(map[string]string) marshal alike
NilMap == [k \in {} |-> JSON("bool", FALSE)]

\* v, ok := m[key].(T)
Is(m, key, type) == key \in DOMAIN m /\ m[key].t = type
\* v, _ := m[key].(string)
StringOf(m, key) == IF Is(m, key, "string") THEN m[key].v ELSE ""

\* ProxyNode.Config is a string: empty, not JSON for a map, or a JSON object
NoConfig == [syntax |-> "empty", object |-> NilMap]
NotJSON == [syntax |-> "invalid", object |-> NilMap]
ObjectJSON(m) == [syntax |-> "object", object |-> m]

\* json.Unmarshal([]byte(node.Config), &config), line 744
Unmarshal(text) ==
    IF text.syntax \in {"empty", "invalid"}
    THEN [err |-> "json.Unmarshal", config |-> NilMap]
    ELSE [err |-> Nil, config |-> text.object]

\* strings.ToLower on the protocol tags in use
ToLower(s) ==
    LET upperCase == [SS |-> "ss", Trojan |-> "trojan", VMess |-> "vmess"] IN
    IF s \in DOMAIN upperCase THEN upperCase[s] ELSE s

\* ------------------------------------------------------------ the structs
\* a nil pointer to a struct
NilPtr == [nil |-> TRUE]

\* the zero SingboxOutbound, lines 556-573
ZeroOutbound ==
    [Type |-> "", Tag |-> "", Server |-> "", ServerPort |-> 0, Method |-> "",
     Password |-> "", UUID |-> "", Security |-> "", AlterId |-> 0,
     TLS |-> NilPtr, Transport |-> NilPtr, Outbounds |-> << >>, Default |-> "",
     URL |-> "", Interval |-> "", InterruptExist |-> FALSE]

\* lines 900-905
getStringOr(m, key, defaultVal) ==
    IF Is(m, key, "string") /\ m[key].v # "" THEN m[key].v ELSE defaultVal

\* lines 907-912
getBool(m, key) == IF Is(m, key, "bool") THEN m[key].v ELSE FALSE

\* lines 783-785 with the assertion config["port"].(int)
PortOfInt(config) == IF Is(config, "port", "int") THEN config["port"].v ELSE 0

\* lines 783-785 and their copies
PortOf(config) == IF Is(config, "port", "float64") THEN config["port"].v ELSE 0

\* lines 818-823 with a loop that ends after the first header
CopyHeadersFirst(headers, order, copied) ==
    LET visited == SelectSeq(order, LAMBDA k : k \in DOMAIN headers) IN
    IF visited = << >> THEN copied
    ELSE (Head(visited) :> StringOf(headers, Head(visited))) @@ copied

\* lines 818-823: "for k, v := range headers" visits the keys in an order the
\* runtime chooses; order lists the keys that can occur, first visited first
RECURSIVE CopyHeaders(_, _, _)
CopyHeaders(headers, order, copied) ==
    IF order = << >> THEN copied
    ELSE LET k == Head(order) IN
         CopyHeaders(headers, Tail(order),
                     IF k \in DOMAIN headers
                     THEN (k :> StringOf(headers, k)) @@ copied
                     ELSE copied)

\* lines 806-810 and 834-838
TLSOf(config, server) ==
    [Enabled |-> TRUE,
     ServerName |-> getStringOr(config, "sni", server),
     Insecure |-> getBool(config, "skip-cert-verify"),
     ALPN |-> << >>]

\* lines 814-825
TransportOf(config, order) ==
    IF Is(config, "network", "string") /\ config["network"].v # "tcp"
    THEN LET wsOpts == IF Is(config, "ws-opts", "map")
                       THEN config["ws-opts"].v ELSE NilMap
         IN  [Type |-> config["network"].v,
              Path |-> StringOf(wsOpts, "path"),
              Headers |-> IF Is(wsOpts, "headers", "map")
                          THEN CopyHeaders(wsOpts["headers"].v, order, NilMap)
                          ELSE NilMap]
    ELSE NilPtr

\* lines 773-853
convertFromConfig(name, config, order) ==
    LET outbound == [ZeroOutbound EXCEPT !.Tag = name]
        nodeType == ToLower(StringOf(config, "type"))
    IN  CASE nodeType = "ss" ->
                [outbound EXCEPT !.Type = "shadowsocks",
                                 !.Server = StringOf(config, "server"),
                                 !.ServerPort = PortOf(config),
                                 !.Method = StringOf(config, "cipher"),
                                 !.Password = StringOf(config, "password")]
          [] nodeType = "vmess" ->
                [outbound EXCEPT
                    !.Type = "vmess",
                    !.Server = StringOf(config, "server"),
                    !.ServerPort = PortOf(config),
                    !.UUID = StringOf(config, "uuid"),
                    !.AlterId = IF Is(config, "alterId", "float64")
                                THEN config["alterId"].v ELSE 0,
                    !.Security = IF StringOf(config, "cipher") = "" THEN "auto"
                                 ELSE StringOf(config, "cipher"),
                    !.TLS = IF Is(config, "tls", "bool") /\ config["tls"].v
                            THEN TLSOf(config, StringOf(config, "server"))
                            ELSE NilPtr,
                    !.Transport = TransportOf(config, order)]
          [] nodeType = "trojan" ->
                [outbound EXCEPT
                    !.Type = "trojan",
                    !.Server = StringOf(config, "server"),
                    !.ServerPort = PortOf(config),
                    !.Password = StringOf(config, "password"),
                    !.TLS = TLSOf(config, StringOf(config, "server"))]
          [] nodeType = "vless" ->
                [outbound EXCEPT !.Type = "vless",
                                 !.Server = StringOf(config, "server"),
                                 !.ServerPort = PortOf(config),
                                 !.UUID = StringOf(config, "uuid")]
          [] OTHER -> NilPtr

\* the switch of lines 751-768
FamilyOf(nodeType) ==
    CASE nodeType \in {"ss", "shadowsocks"} -> "shadowsocks"
      [] nodeType = "vmess" -> "vmess"
      [] nodeType = "vless" -> "vless"
      [] nodeType = "trojan" -> "trojan"
      [] nodeType \in {"hysteria2", "hy2"} -> "hysteria2"
      [] nodeType \in {"socks", "socks5"} -> "socks"
      [] nodeType = "http" -> "http"
      [] OTHER -> ""

\* convertProxyNode without the default case of lines 766-767
convertProxyNodeAnyType(node, order) ==
    LET outbound == [ZeroOutbound EXCEPT !.Tag = node.Name,
                                         !.Server = node.Server,
                                         !.ServerPort = node.Port]
        parsed == Unmarshal(node.Config)
    IN  IF node.Config # NoConfig /\ parsed.err = Nil
        THEN convertFromConfig(node.Name, parsed.config, order)
        ELSE [outbound EXCEPT !.Type = FamilyOf(ToLower(node.Type))]

\* lines 734-771
convertProxyNode(node, order) ==
    LET outbound == [ZeroOutbound EXCEPT !.Tag = node.Name,
                                         !.Server = node.Server,
                                         !.ServerPort = node.Port]
        parsed == Unmarshal(node.Config)
    IN  IF node.Config # NoConfig /\ parsed.err = Nil
        THEN convertFromConfig(node.Name, parsed.config, order)
        ELSE IF FamilyOf(ToLower(node.Type)) = "" THEN NilPtr
        ELSE [outbound EXCEPT !.Type = FamilyOf(ToLower(node.Type))]

\* ------------------------------------------------------- generateOutbounds
\* the loop of lines 697-703
RECURSIVE ConvertAll(_, _, _)
ConvertAll(rest, order, done) ==
    IF rest = << >> THEN done
    ELSE LET node == Head(rest)
             outbound == convertProxyNode(node, order)
         IN  ConvertAll(Tail(rest), order,
                        IF outbound # NilPtr
                        THEN [outbounds |-> Append(done.outbounds, outbound),
                              nodeNames |-> Append(done.nodeNames, node.Name)]
                        ELSE done)

\* lines 707-712
Selector(nodeNames) ==
    [ZeroOutbound EXCEPT !.Type = "selector", !.Tag = "proxy",
                         !.Outbounds = <<"auto">> \o nodeNames,
                         !.Default = "auto"]

\* lines 714-721
URLTest(nodeNames) ==
    [ZeroOutbound EXCEPT !.Type = "urltest", !.Tag = "auto",
                         !.Outbounds = nodeNames,
                         !.URL = "https://www.gstatic.com/generate_204",
                         !.Interval = "300s",
                         !.InterruptExist = TRUE]

\* lines 725-729
Synthesized ==
    << [ZeroOutbound EXCEPT !.Type = "direct", !.Tag = "direct"],
       [ZeroOutbound EXCEPT !.Type = "block", !.Tag = "block"],
       [ZeroOutbound EXCEPT !.Type = "dns", !.Tag = "dns-out"] >>

\* generateOutbounds without the test of line 706
generateOutboundsWithGroups(nodeList, order) ==
    LET loop == ConvertAll(nodeList, order,
                           [outbounds |-> << >>, nodeNames |-> << >>])
    IN  loop.outbounds
        \o <<Selector(loop.nodeNames), URLTest(loop.nodeNames)>>
        \o Synthesized

\* lines 692-732
generateOutbounds(nodeList, order) ==
    LET loop == ConvertAll(nodeList, order,
                           [outbounds |-> << >>, nodeNames |-> << >>])
    IN  loop.outbounds
        \o (IF Len(loop.nodeNames) > 0
            THEN <<Selector(loop.nodeNames), URLTest(loop.nodeNames)>>
            ELSE << >>)
        \o Synthesized

\* ------------------------------------------------ the rest of the document
\* lines 643-656
generateDNS ==
    [Servers |-> << [Tag |-> "dns-direct",
                     Address |-> "https://dns.alidns.com/dns-query",
                     Detour |-> "direct"],
                    [Tag |-> "dns-proxy",
                     Address |-> "https://dns.google/dns-query",
                     Detour |-> "proxy"],
                    [Tag |-> "dns-block", Address |-> "rcode://success",
                     Detour |-> ""] >>,
     Rules |-> << [Domain |-> << >>, GeoSite |-> <<"cn">>,
                   Server |-> "dns-direct", Outbound |-> ""],
                  [Domain |-> << >>, GeoSite |-> <<"geolocation-!cn">>,
                   Server |-> "dns-proxy", Outbound |-> ""] >>]

\* the zero SingboxInbound, lines 541-554
ZeroInbound ==
    [Type |-> "", Tag |-> "", Listen |-> "", ListenPort |-> 0, Sniff |-> FALSE,
     SniffOverrideDestination |-> FALSE, DomainStrategy |-> "",
     InterfaceName |-> "", MTU |-> 0, Inet4Address |-> << >>,
     AutoRoute |-> FALSE, StrictRoute |-> FALSE]

\* lines 658-690
generateInbounds(opts) ==
    << [ZeroInbound EXCEPT !.Type = "mixed", !.Tag = "mixed-in",
                           !.Listen = IF opts.AllowLan THEN "0.0.0.0"
                                      ELSE "127.0.0.1",
                           !.ListenPort = opts.MixedPort,
                           !.Sniff = TRUE] >>
    \o (IF opts.EnableTUN
        THEN << [ZeroInbound EXCEPT !.Type = "tun", !.Tag = "tun-in",
                                    !.InterfaceName = "utun", !.MTU = 9000,
                                    !.Inet4Address = <<"172.19.0.1/30">>,
                                    !.AutoRoute = TRUE, !.StrictRoute = TRUE,
                                    !.Sniff = TRUE] >>
        ELSE << >>)

\* the zero SingboxRouteRule, lines 594-604
ZeroRouteRule ==
    [Protocol |-> << >>, Domain |-> << >>, DomainSuffix |-> << >>,
     DomainKeyword |-> << >>, IPCidr |-> << >>, GeoIP |-> << >>,
     GeoSite |-> << >>, Port |-> << >>, Outbound |-> ""]

\* lines 855-872
generateRoute ==
    [AutoDetectInterface |-> TRUE,
     FinalOutbound |-> "proxy",
     Rules |-> << [ZeroRouteRule EXCEPT !.Protocol = <<"dns">>,
                                        !.Outbound = "dns-out"],
                  [ZeroRouteRule EXCEPT
                      !.IPCidr = <<"127.0.0.0/8", "10.0.0.0/8",
                                   "172.16.0.0/12", "192.168.0.0/16">>,
                      !.Outbound = "direct"],
                  [ZeroRouteRule EXCEPT !.GeoIP = <<"cn">>,
                                        !.Outbound = "direct"],
                  [ZeroRouteRule EXCEPT !.GeoSite = <<"cn">>,
                                        !.Outbound = "direct"],
                  [ZeroRouteRule EXCEPT !.GeoSite = <<"category-ads-all">>,
                                        !.Outbound = "block"] >>]

\* lines 616-641; order is the order in which the runtime ranges over a map
\* during this call
GenerateConfig(nodeList, opts, order) ==
    LET withPort == IF opts.MixedPort = 0
                    THEN [opts EXCEPT !.MixedPort = 7890] ELSE opts
    IN  [config |-> [Log |-> [Level |-> "info", Timestamp |-> TRUE],
                     DNS |-> generateDNS,
                     Inbounds |-> generateInbounds(withPort),
                     Outbounds |-> generateOutbounds(nodeList, order),
                     Route |-> generateRoute],
         err |-> Nil]

\* ---------------------------------------------------- json.MarshalIndent
\* A struct is written as its fields in declaration order, <<key, value>>
\* each; a field tagged omitempty is left out when it holds the zero value of
\* its type.  A tag is <<field, key, type, omitempty>>; TagsOf gives the tags
\* of a struct type, or of the element type of a slice of structs.
TagsOf(type) ==
    CASE type = "SingboxConfig" ->
        << <<"Log", "log", "SingboxLog", FALSE>>,
           <<"DNS", "dns", "SingboxDNS", FALSE>>,
           <<"Inbounds", "inbounds", "[]SingboxInbound", FALSE>>,
           <<"Outbounds", "outbounds", "[]SingboxOutbound", FALSE>>,
           <<"Route", "route", "SingboxRoute", FALSE>> >>
      [] type = "SingboxLog" ->
        << <<"Level", "level", "string", FALSE>>,
           <<"Timestamp", "timestamp", "bool", FALSE>> >>
      [] type = "SingboxDNS" ->
        << <<"Servers", "servers", "[]SingboxDNSServer", FALSE>>,
           <<"Rules", "rules", "[]SingboxDNSRule", TRUE>> >>
      [] type = "[]SingboxDNSServer" ->
        << <<"Tag", "tag", "string", FALSE>>,
           <<"Address", "address", "string", FALSE>>,
           <<"Detour", "detour", "string", TRUE>> >>
      [] type = "[]SingboxDNSRule" ->
        << <<"Domain", "domain", "list", TRUE>>,
           <<"GeoSite", "geosite", "list", TRUE>>,
           <<"Server", "server", "string", FALSE>>,
           <<"Outbound", "outbound", "string", TRUE>> >>
      [] type = "[]SingboxInbound" ->
        << <<"Type", "type", "string", FALSE>>,
           <<"Tag", "tag", "string", FALSE>>,
           <<"Listen", "listen", "string", TRUE>>,
           <<"ListenPort", "listen_port", "int", TRUE>>,
           <<"Sniff", "sniff", "bool", TRUE>>,
           <<"SniffOverrideDestination", "sniff_override_destination", "bool",
             TRUE>>,
           <<"DomainStrategy", "domain_strategy", "string", TRUE>>,
           <<"InterfaceName", "interface_name", "string", TRUE>>,
           <<"MTU", "mtu", "int", TRUE>>,
           <<"Inet4Address", "inet4_address", "list", TRUE>>,
           <<"AutoRoute", "auto_route", "bool", TRUE>>,
           <<"StrictRoute", "strict_route", "bool", TRUE>> >>
      [] type = "[]SingboxOutbound" ->
        << <<"Type", "type", "string", FALSE>>,
           <<"Tag", "tag", "string", FALSE>>,
           <<"Server", "server", "string", TRUE>>,
           <<"ServerPort", "server_port", "int", TRUE>>,
           <<"Method", "method", "string", TRUE>>,
           <<"Password", "password", "string", TRUE>>,
           <<"UUID", "uuid", "string", TRUE>>,
           <<"Security", "security", "string", TRUE>>,
           <<"AlterId", "alter_id", "int", TRUE>>,
           <<"TLS", "tls", "*SingboxTLS", TRUE>>,
           <<"Transport", "transport", "*SingboxTransport", TRUE>>,
           <<"Outbounds", "outbounds", "list", TRUE>>,
           <<"Default", "default", "string", TRUE>>,
           <<"URL", "url", "string", TRUE>>,
           <<"Interval", "interval", "string", TRUE>>,
           <<"InterruptExist", "interrupt_exist_connections", "bool", TRUE>> >>
      [] type = "*SingboxTLS" ->
        << <<"Enabled", "enabled", "bool", FALSE>>,
           <<"ServerName", "server_name", "string", TRUE>>,
           <<"Insecure", "insecure", "bool", TRUE>>,
           <<"ALPN", "alpn", "list", TRUE>> >>
      [] type = "*SingboxTransport" ->
        << <<"Type", "type", "string", FALSE>>,
           <<"Path", "path", "string", TRUE>>,
           <<"Headers", "headers", "map[string]string", TRUE>> >>
      [] type = "SingboxRoute" ->
        << <<"Rules", "rules", "[]SingboxRouteRule", FALSE>>,
           <<"AutoDetectInterface", "auto_detect_interface", "bool", FALSE>>,
           <<"FinalOutbound", "final", "string", TRUE>> >>
      [] type = "[]SingboxRouteRule" ->
        << <<"Protocol", "protocol", "list", TRUE>>,
           <<"Domain", "domain", "list", TRUE>>,
           <<"DomainSuffix", "domain_suffix", "list", TRUE>>,
           <<"DomainKeyword", "domain_keyword", "list", TRUE>>,
           <<"IPCidr", "ip_cidr", "list", TRUE>>,
           <<"GeoIP", "geoip", "list", TRUE>>,
           <<"GeoSite", "geosite", "list", TRUE>>,
           <<"Port", "port", "list", TRUE>>,
           <<"Outbound", "outbound", "string", FALSE>> >>

StructSlices ==
    {"[]SingboxDNSServer", "[]SingboxDNSRule", "[]SingboxInbound",
     "[]SingboxOutbound", "[]SingboxRouteRule"}

\* encoding/json's isEmptyValue
isEmptyValue(type, v) ==
    CASE type = "string" -> v = ""
      [] type = "int" -> v = 0
      [] type = "bool" -> v = FALSE
      [] type = "list" \/ type \in StructSlices -> Len(v) = 0
      [] type \in {"*SingboxTLS", "*SingboxTransport"} -> v = NilPtr
      [] type = "map[string]string" -> DOMAIN v = {}
      [] OTHER -> FALSE

\* a map, its keys in the order of keys
RECURSIVE MarshalMap(_, _)
MarshalMap(m, keys) ==
    IF keys = << >> THEN << >>
    ELSE (IF Head(keys) \in DOMAIN m
          THEN << <<Head(keys), m[Head(keys)]>> >> ELSE << >>)
         \o MarshalMap(m, Tail(keys))

RECURSIVE MarshalStruct(_, _)
MarshalValue(type, v) ==
    CASE type \in {"string", "int", "bool", "list"} -> v
      \* encoding/json writes the keys of a map sorted
      [] type = "map[string]string" -> MarshalMap(v, <<"Host", "User-Agent">>)
      [] type \in StructSlices ->
            [i \in 1..Len(v) |-> MarshalStruct(v[i], TagsOf(type))]
      [] OTHER -> MarshalStruct(v, TagsOf(type))

MarshalStruct(v, tags) ==
    IF tags = << >> THEN << >>
    ELSE LET tag == Head(tags) IN
         (IF tag[4] /\ isEmptyValue(tag[3], v[tag[1]]) THEN << >>
          ELSE << <<tag[2], MarshalValue(tag[3], v[tag[1]])>> >>)
         \o MarshalStruct(v, Tail(tags))

\* json.MarshalIndent(config, "", "  "), line 887
MarshalIndent(config) == MarshalStruct(config, TagsOf("SingboxConfig"))

\* --------------------------------------------------------------- SaveConfig
\* no *SingboxConfig yet
NoDocument == [nil |-> TRUE]

\* no file at the path
NoConfigFile == <<"ENOENT">>

\* lines 876-885, a file name being its parts: strings.HasSuffix looks at the
\* last one
FilePath(filename) ==
    <<"configs">>
    \o (IF Len(filename) > 0 /\ filename[Len(filename)] = ".json"
        THEN filename ELSE Append(filename, ".json"))

\* SaveConfig not running; before is what the file held when the call began
IdleSave ==
    [pc |-> "idle", data |-> << >>, filePath |-> << >>, before |-> << >>,
     result |-> << >>, err |-> Nil]

\* ------------------------------------------------- arguments of the calls
\* payloads in the Clash style the node store keeps in ProxyNode.Config
ShadowsocksPayload ==
    ObjectJSON([type |-> JSON("string", "ss"),
                server |-> JSON("string", "example.com"),
                port |-> JSON("float64", 8443),
                cipher |-> JSON("string", "aes-256-gcm"),
                password |-> JSON("string", "secret")])

\* a payload with TLS, an empty sni and a WebSocket transport with two headers
VMessPayload ==
    ObjectJSON(
        [type |-> JSON("string", "vmess"),
         server |-> JSON("string", "example.com"),
         port |-> JSON("float64", 443),
         uuid |-> JSON("string", "uuid-1"),
         tls |-> JSON("bool", TRUE),
         sni |-> JSON("string", ""),
         network |-> JSON("string", "ws")]
        @@ ("ws-opts" :> JSON("map",
                [path |-> JSON("string", "/ws"),
                 headers |-> JSON("map",
                     [Host |-> JSON("string", "cdn.example.com")]
                     @@ ("User-Agent" :> JSON("string", "curl")))])))

Node(name, type, server, port, config) ==
    [Name |-> name, Type |-> type, Server |-> server, Port |-> port,
     Config |-> config]

\* the nodes a caller passes
NodeValues ==
    {Node("wg", "wireguard", "example.com", 8443, NoConfig),
     Node("proxy", "SS", "example.com", 8443, NoConfig),
     Node("hy", "hy2", "example.com", 443, NoConfig),
     Node("ss", "ss", "example.com", 8443, ShadowsocksPayload),
     \* a payload that leaves host and port to the node's own fields
     Node("tr", "trojan", "example.com", 443,
          ObjectJSON([type |-> JSON("string", "Trojan"),
                      password |-> JSON("string", "secret")])),
     Node("vm", "VMess", "example.com", 443, VMessPayload),
     Node("vl", "vless", "example.com", 443, NotJSON),
     Node("hy-full", "hysteria2", "example.com", 443,
          ObjectJSON([type |-> JSON("string", "hysteria2"),
                      server |-> JSON("string", "example.com"),
                      port |-> JSON("float64", 443),
                      password |-> JSON("string", "secret")]))}

\* the orders in which "range headers" can visit the header names
RangeOrders == {<<"Host", "User-Agent">>, <<"User-Agent", "Host">>}

\* the file names a caller passes to SaveConfig
Filenames == {<<"config">>, <<"config", ".json">>}

\* the generator before its first call
GeneratorAtRest ==
    /\ document = NoDocument
    /\ previous = NoDocument
    /\ genErr = NotCalled
    /\ files = [p \in {FilePath(f) : f \in Filenames} |-> NoConfigFile]
    /\ save = IdleSave

\* ====================================================================
\* The configuration editor (ConfigGeneratorPage.tsx)
\* ====================================================================
\* the names a group can have; addRule preselects the first as target (line
\* 502)
GroupNames == {"node-select", "media"}

\* a ProxyGroup, by the fields the operations read (lines 69-82)
ProxyGroup(name, enabled) == [name |-> name, enabled |-> enabled]

\* a Rule (lines 84-90)
Rule(type, payload, proxy) ==
    [type |-> type, payload |-> payload, proxy |-> proxy]

\* what the user can enter in EditRuleDialog: a type, a payload or none, and
\* a target from the select of lines 931-939 or the preselected one
RuleInputs ==
    {Rule(type, payload, proxy) :
        type \in {"DOMAIN-SUFFIX", "MATCH"}, payload \in {"", "google.com"},
        proxy \in GroupNames} \ {Rule("MATCH", "google.com", proxy) :
                                    proxy \in GroupNames}

\* splice(index, 1)
RemoveAt(s, index) == SubSeq(s, 1, index - 1) \o SubSeq(s, index + 1, Len(s))

\* splice(index, 0, item)
InsertAt(s, index, item) ==
    SubSeq(s, 1, index - 1) \o <<item>> \o SubSeq(s, index, Len(s))

\* group.enabled !== false, line 348
isEnabled(group) == group.enabled # FALSE

\* saveEditingGroup, lines 267-286
saveEditingGroup(tpl, editingGroup) ==
    LET found == {i \in 1..Len(tpl.proxyGroups) :
                     tpl.proxyGroups[i].name = editingGroup.name}
    IN  IF found # {}
        THEN LET existingIndex == CHOOSE i \in found : \A j \in found : i <= j
             IN  [tpl.proxyGroups EXCEPT ![existingIndex] = editingGroup]
        ELSE Append(tpl.proxyGroups, editingGroup)

\* saveEditingRule past its check, lines 516-530; index 0 is "undefined"
saveEditingRule(tpl, rule, index) ==
    LET found == {i \in 1..Len(tpl.rules) : tpl.rules[i].type = "MATCH"} IN
    IF index # 0 THEN [tpl.rules EXCEPT ![index] = rule]
    ELSE IF found # {}
    THEN LET matchIndex == CHOOSE i \in found : \A j \in found : i <= j
         IN  InsertAt(tpl.rules, matchIndex, rule)
    ELSE Append(tpl.rules, rule)

\* no PUT is waiting for its response
NoRequest == [url |-> "", body |-> << >>]

\* the templates GET /proxy/template delivers when the page loads: two
\* groups with a rule for each, the catch-all last, or one group and no rule
LoadedTemplates ==
    {[proxyGroups |-> <<ProxyGroup("node-select", TRUE),
                        ProxyGroup("media", TRUE)>>,
      rules |-> <<Rule("DOMAIN-SUFFIX", "google.com", "media"),
                  Rule("MATCH", "", "node-select")>>],
     [proxyGroups |-> <<ProxyGroup("node-select", TRUE)>>, rules |-> << >>]}

\* the page not in use
EditorAtRest ==
    /\ template = [proxyGroups |-> << >>, rules |-> << >>]
    /\ request = NoRequest

\* ------------------------------------------------- the HTTP handlers
\* no handler called yet
NoCall == [handler |-> "", reply |-> [status |-> 0, body |-> << >>]]

\* the address of the engine's controller: h.service.GetConfig()
\* .ExternalController, and the default when it is empty, lines 398-401
apiAddr(externalController) ==
    IF externalController = "" THEN "127.0.0.1:9090" ELSE externalController

\* what the controller at that address does with a request.  err is the
\* error of http.Get / client.Do (nothing listens, or the client's
\* Timeout passes before the headers); otherwise the headers arrived with
\* status, and of the pieces of body the first `read` were received
\* before the connection ended (all of them when it ended in order; fewer
\* when it broke or the Timeout passed while the body was read)
Upstreams ==
    LET Answer(status, body, read) ==
            [err |-> Nil, status |-> status, body |-> body, read |-> read]
    IN  {[err |-> "connect: connection refused", status |-> 0,
          body |-> << >>, read |-> 0],
         Answer(200, <<"{\"proxies\":{", "\"GLOBAL\":{}", "}}">>, 3),
         Answer(200, <<"{\"proxies\":{", "\"GLOBAL\":{}", "}}">>, 1),
         Answer(204, << >>, 0),
         Answer(404, <<"{\"message\":\"Resource not found\"}">>, 1),
         Answer(503, <<"{\"message\":\"An error occurred in the delay test\"}">>, 1)}

\* what the four handlers do with the outcome of their request, lines
\* 404-414: 503 and gin.H{code: 1, message: "Mihomo API 不可用: " + err}
\* (written here in ASCII) when the request returned an error, otherwise
\* "body, _ := io.ReadAll(resp.Body)", which returns what was read and an
\* error the handler drops, and c.Data(resp.StatusCode, ..., body)
Relay(upstream) ==
    IF upstream.err # Nil
    THEN [status |-> 503,
          body |-> <<"{\"code\":1,\"message\":\"Mihomo API unavailable: ",
                     upstream.err, "\"}">>]
    ELSE [status |-> upstream.status,
          body |-> SubSeq(upstream.body, 1, upstream.read)]

\* strconv.Atoi on the characters of s, line 266: an optional sign and at
\* least one decimal digit, anything else is an error
Atoi(s) ==
    LET digit == [c \in {"0", "1", "2", "3", "4", "5", "6", "7", "8", "9"} |->
                    CASE c = "0" -> 0 [] c = "1" -> 1 [] c = "2" -> 2
                      [] c = "3" -> 3 [] c = "4" -> 4 [] c = "5" -> 5
                      [] c = "6" -> 6 [] c = "7" -> 7 [] c = "8" -> 8
                      [] c = "9" -> 9]
        signed == Len(s) > 0 /\ s[1] \in {"+", "-"}
        digits == IF signed THEN Tail(s) ELSE s
        RECURSIVE value(_, _)
        value(rest, n) ==
            IF rest = << >> THEN n
            ELSE value(Tail(rest), 10 * n + digit[Head(rest)])
    IN  IF digits = << >> \/ \E i \in 1..Len(digits) : digits[i] \notin DOMAIN digit
        THEN [val |-> 0, err |-> "invalid syntax"]
        ELSE [val |-> IF signed /\ s[1] = "-" THEN 0 - value(digits, 0)
                      ELSE value(digits, 0),
              err |-> Nil]

\* strings.Contains(s, substr), lines 277-287
Contains(s, substr) ==
    \E i \in 0..(Len(s) - Len(substr)) :
        SubSeq(s, i + 1, i + Len(substr)) = substr

\* the lines of the engine's output the model knows
LogLines ==
    {<<"E", "R", "R", "O">>,
     <<"W", "A", "R", "N">>,
     <<"I", "N", "F", "O", " ", "e", "r", "r", "o", "r">>,
     <<"d", "b", "g">>}

\* h.service.GetLogs(limit), line 270: the most recent limit lines of the
\* buffer, oldest first
serviceGetLogs(buffer, limit) ==
    IF Len(buffer) <= limit THEN buffer
    ELSE SubSeq(buffer, Len(buffer) - limit + 1, Len(buffer))

\* the loop of lines 273-291 with only the first marker of each level
filterLogsFirstMarker(lines, level) ==
    LET Marked(line) ==
            CASE level = "error" -> Contains(line, <<"E", "R", "R">>)
              [] level = "warn" -> Contains(line, <<"W", "A", "R", "N">>)
              [] level = "info" -> Contains(line, <<"I", "N", "F", "O">>)
              [] OTHER -> TRUE
    IN  SelectSeq(lines, Marked)

\* the loop of lines 273-291: the lines the level keeps, in their order
filterLogs(lines, level) ==
    LET Marked(line) ==
            CASE level = "error" ->
                     \/ Contains(line, <<"E", "R", "R">>)
                     \/ Contains(line, <<"F", "A", "T", "A">>)
                     \/ Contains(line, <<"e", "r", "r", "o", "r">>)
              [] level = "warn" ->
                     \/ Contains(line, <<"W", "A", "R", "N">>)
                     \/ Contains(line, <<"w", "a", "r", "n", "i", "n", "g">>)
              [] level = "info" ->
                     \/ Contains(line, <<"I", "N", "F", "O">>)
                     \/ Contains(line, <<"i", "n", "f", "o">>)
              [] OTHER -> TRUE
    IN  SelectSeq(lines, Marked)

\* ====================================================================
\* The core manager: initial states and operations
\* ====================================================================
\* what core_status.json can hold when the service starts: nothing readable,
\* or what saveStatus wrote in an earlier run that had both engines installed
\* and had switched to sing-box
SavedFiles ==
    {NoFile,
     [readable |-> TRUE, CurrentCore |-> CoreTypeSingbox,
      Versions |-> [e \in Engines |-> <<"1">>]]}

\* what the cores directory can hold when the service starts: nothing, or
\* the Mihomo binary of an earlier release
BinFiles ==
    {[e \in Engines |-> NoBin],
     [e \in Engines |-> IF e = CoreTypeMihomo THEN Release(e, <<"1">>)
                        ELSE NoBin]}

Init ==
    /\ statusFile \in SavedFiles
    /\ bin \in BinFiles
    /\ currentCore = NewService(statusFile, bin).currentCore
    /\ cores = NewService(statusFile, bin).cores
    /\ downloadProgress = [n \in {} |-> ZeroProgress]
    /\ mu = "unlocked"
    /\ tmp = NoTmp
    /\ savers = EmptyBag
    /\ calls = 0
    /\ dl = EmptyBag
    /\ rf = IdleRefresh
    /\ switchErr = NotCalled
    /\ nodes = << >>
    /\ options = [MixedPort |-> 0, AllowLan |-> FALSE, EnableTUN |-> FALSE]
    /\ GeneratorAtRest
    /\ EditorAtRest
    /\ api = NoCall
    /\ logBuffer = << >>
    /\ page = [e \in Engines |-> IdlePage]

\* ------------------------------------------------------------ SwitchCore
\* SwitchCore without the test of line 313
SwitchCoreAnyCore(coreType) ==
    /\ CanLock
    /\ IF coreType \notin DOMAIN cores
       THEN /\ switchErr' = ErrUnknownCoreType
            /\ UNCHANGED <<currentCore, savers>>
       ELSE /\ BagCardinality(savers) < MaxSavers
            /\ currentCore' = coreType
            /\ savers' = savers (+) SetToBag({SaverStart})
            /\ switchErr' = Nil
    /\ calls < MaxCalls
    /\ calls' = calls + 1
    /\ UNCHANGED <<nonCoreVars, page>>
    /\ UNCHANGED <<cores, downloadProgress, mu, statusFile, bin, tmp, dl, rf>>

SwitchCore(coreType) ==
    /\ CanLock
    /\ IF coreType \notin DOMAIN cores
       THEN /\ switchErr' = ErrUnknownCoreType
            /\ UNCHANGED <<currentCore, savers>>
       ELSE IF ~cores[coreType].Installed
       THEN /\ switchErr' = ErrNotInstalled
            /\ UNCHANGED <<currentCore, savers>>
       ELSE /\ BagCardinality(savers) < MaxSavers
            /\ currentCore' = coreType
            /\ savers' = savers (+) SetToBag({SaverStart})
            /\ switchErr' = Nil
    /\ calls < MaxCalls
    /\ calls' = calls + 1
    /\ UNCHANGED <<nonCoreVars, page>>
    /\ UNCHANGED <<cores, downloadProgress, mu, statusFile, bin, tmp, dl, rf>>

\* "go s.saveStatus()", lines 110-120
SaverSnapshot(s) ==
    /\ s.pc = "rlock"
    /\ CanRLock
    /\ savers' = (savers (-) SetToBag({s}))
                    (+) SetToBag({[pc |-> "write", saved |-> SavedCoreStatus]})
    /\ UNCHANGED <<nonCoreVars, page>>
    /\ UNCHANGED <<currentCore, cores, downloadProgress, mu, statusFile, bin,
                   tmp, calls, dl, rf, switchErr>>

\* "go s.saveStatus()", lines 122-128; the goroutine ends
SaverWrite(s) ==
    /\ s.pc = "write"
    /\ statusFile' = WriteFile(s.saved)
    /\ savers' = savers (-) SetToBag({s})
    /\ UNCHANGED <<nonCoreVars, page>>
    /\ UNCHANGED <<currentCore, cores, downloadProgress, mu, bin, tmp, dl,
                   rf, calls, switchErr>>

\* ----------------------------------------------------- GetLatestVersions
\* One step per fetch: the request, the decoding of the answer and, when err
\* is nil, the locked assignment that follows it.
FetchMihomo(resp) ==
    /\ rf.pc = "idle"
    /\ LET r == fetchLatestVersion(resp) IN
       IF r.err = Nil
       THEN /\ CanLock
            /\ cores' = [cores EXCEPT ![CoreTypeMihomo].LatestVersion = r.version]
       ELSE UNCHANGED cores
    /\ rf' = [pc |-> "singbox"]
    /\ calls < MaxCalls
    /\ calls' = calls + 1
    /\ UNCHANGED <<nonCoreVars, page>>
    /\ UNCHANGED <<currentCore, downloadProgress, mu, statusFile, bin, tmp,
                   savers, dl, switchErr>>

\* the second fetch; the call returns a nil error
FetchSingbox(resp) ==
    /\ rf.pc = "singbox"
    /\ LET r == fetchLatestVersion(resp) IN
       IF r.err = Nil
       THEN /\ CanLock
            /\ cores' = [cores EXCEPT ![CoreTypeSingbox].LatestVersion = r.version]
       ELSE UNCHANGED cores
    /\ rf' = [pc |-> "idle"]
    /\ UNCHANGED <<nonCoreVars, page>>
    /\ UNCHANGED <<currentCore, downloadProgress, mu, statusFile, bin, tmp,
                   savers, calls, dl, switchErr>>

\* ---------------------------------------------------------- DownloadCore
\* The calls in flight are a bag: nothing tells two calls apart but what
\* they have done so far.
Call(d) == SetToBag({d})

\* os.Remove: every open handle now belongs to a file that has no path
Detach(d) == [d EXCEPT !.attached = FALSE]
DetachAll(b) ==
    [e \in {Detach(d) : d \in BagToSet(b)} |->
        CopiesIn(e, b) + CopiesIn([e EXCEPT !.attached = TRUE], b)]

\* lines 330-334, the deferred function: the call d returns err and the
\* calls in others go on.  A goroutine that cannot take the lock stays in
\* the deferred function.
Return(d, err, others) ==
    IF CanLock
    THEN /\ downloadProgress' =
                [downloadProgress EXCEPT ![d.coreType].Downloading = FALSE]
         /\ dl' = others
    ELSE /\ downloadProgress' = downloadProgress
         /\ dl' = others (+) Call([Detach(d) EXCEPT !.pc = "defer", !.err = err])

\* the locals of a call that has just started
NewDownload ==
    [pc |-> "http", coreType |-> "", version |-> NoVersion, totalSize |-> 0,
     written |-> 0, attached |-> FALSE, err |-> Nil, saved |-> NoFile]

\* lines 326-336: the progress entry is replaced, the deferred reset is
\* registered and getCoreDownloadURL reads LatestVersion.  No step of another
\* goroutine can tell whether it runs between the two locked sections or
\* before them, so they are one step.  After a panic the goroutine runs the
\* deferred function and waits in its Lock for the read lock that it holds
\* itself.
DownloadStart(coreType) ==
    /\ BagCardinality(dl) < NumDownloads
    /\ CanLock
    /\ downloadProgress' =
           (coreType :> [ZeroProgress EXCEPT !.Downloading = TRUE])
               @@ downloadProgress
    /\ LET u == getCoreDownloadURL(coreType)
           d == [NewDownload EXCEPT
                    !.coreType = coreType,
                    !.version = u.version,
                    !.err = u.err]
       IN  IF u.panic
           THEN /\ mu' = "rlocked"
                /\ dl' = dl (+) Call([d EXCEPT !.pc = "panic"])
           ELSE /\ mu' = mu
                /\ dl' = dl (+) Call([d EXCEPT !.pc = IF u.err = Nil THEN "http"
                                                      ELSE "urlerr"])
    /\ calls < MaxCalls
    /\ calls' = calls + 1
    /\ UNCHANGED nonCoreVars
    /\ UNCHANGED <<currentCore, cores, statusFile, bin, tmp, savers, rf,
                   switchErr>>

\* lines 338-341
DownloadURLErr(d) ==
    /\ d.pc = "urlerr"
    /\ CanLock
    /\ downloadProgress' =
           [downloadProgress EXCEPT ![d.coreType].Error = d.err]
    /\ dl' = (dl (-) Call(d)) (+) Call([d EXCEPT !.pc = "defer"])
    /\ UNCHANGED <<nonCoreVars, page>>
    /\ UNCHANGED <<currentCore, cores, mu, statusFile, bin, tmp, savers,
                   calls, rf, switchErr>>

\* lines 330-334 after line 342: the call returns d.err
DownloadReturn(d) ==
    /\ d.pc = "defer"
    /\ CanLock
    /\ Return(d, d.err, dl (-) Call(d))
    /\ UNCHANGED <<nonCoreVars, page>>
    /\ UNCHANGED <<currentCore, cores, mu, statusFile, bin, tmp, savers,
                   calls, rf, switchErr>>

\* lines 346-366 when the request or os.Create fails: the call returns
GetFailure(resp, created) ==
    IF resp.err # Nil THEN resp.err
    ELSE IF resp.StatusCode # 200 THEN ErrHTTPStatus
    ELSE IF ~created THEN ErrCreate
    ELSE Nil

DownloadGetFailed(d, resp, created) ==
    /\ d.pc = "http"
    /\ GetFailure(resp, created) # Nil
    /\ Return(d, GetFailure(resp, created), dl (-) Call(d))
    /\ UNCHANGED <<nonCoreVars, page>>
    /\ UNCHANGED <<currentCore, cores, mu, statusFile, bin, tmp, savers,
                   calls, rf, switchErr>>

\* lines 346-366 when they succeed.  os.Create truncates the file that is at
\* the path, or makes a new one; handles whose file was removed stay with
\* the removed file.
DownloadGet(d, resp) ==
    /\ d.pc = "http"
    /\ GetFailure(resp, TRUE) = Nil
    /\ tmp' = [exists |-> TRUE, data |-> << >>]
    /\ dl' = (dl (-) Call(d))
                (+) Call([d EXCEPT !.pc = "read",
                                   !.totalSize = resp.ContentLength,
                                   !.written = 0,
                                   !.attached = TRUE])
    /\ UNCHANGED <<nonCoreVars, page>>
    /\ UNCHANGED <<currentCore, cores, downloadProgress, mu, statusFile, bin,
                   savers, calls, rf, switchErr>>

\* lines 370-380: one Read that delivers bytes, the Write of them and the
\* locked update of Progress
DownloadChunk(d) ==
    /\ d.pc = "read"
    /\ d.written < TotalChunks
    /\ CanLock
    /\ tmp' = IF d.attached
              THEN [tmp EXCEPT !.data =
                       WriteAt(@, d.written + 1, Release(d.coreType, d.version))]
              ELSE tmp
    /\ downloadProgress' =
           IF d.totalSize > 0
           THEN [downloadProgress EXCEPT ![d.coreType].Progress =
                    Percent(d.written + 1, d.totalSize)]
           ELSE downloadProgress
    /\ dl' = (dl (-) Call(d)) (+) Call([d EXCEPT !.written = @ + 1])
    /\ UNCHANGED <<nonCoreVars, page>>
    /\ UNCHANGED <<currentCore, cores, mu, statusFile, bin, savers, calls,
                   rf, switchErr>>

\* lines 384-388: os.Remove removes whatever file is at the path; the call
\* returns
DownloadReadErr(d) ==
    /\ d.pc = "read"
    /\ tmp' = NoTmp
    /\ Return(d, ErrRead, DetachAll(dl (-) Call(d)))
    /\ UNCHANGED <<nonCoreVars, page>>
    /\ UNCHANGED <<currentCore, cores, mu, statusFile, bin, savers, calls,
                   rf, switchErr>>

\* a failed extraction that also takes the engine back to not installed
DownloadExtractFailedUninstalls(d, outcome) ==
    /\ d.pc = "read"
    /\ d.written = TotalChunks
    /\ outcome = "failed after Create" => tmp.exists
    /\ bin' = IF outcome = "failed after Create"
              THEN [bin EXCEPT ![d.coreType] = Truncated]
              ELSE bin
    /\ cores' = [cores EXCEPT ![d.coreType].Installed = FALSE]
    /\ tmp' = NoTmp
    /\ Return(d, ErrExtract, DetachAll(dl (-) Call(d)))
    /\ UNCHANGED <<nonCoreVars, page>>
    /\ UNCHANGED <<currentCore, mu, statusFile, savers, calls, rf,
                   switchErr>>

\* lines 381-383 and 390-394: the Read that returns io.EOF, an extractCore
\* that fails before or after its os.Create, and os.Remove; the call returns
DownloadExtractFailed(d, outcome) ==
    /\ d.pc = "read"
    /\ d.written = TotalChunks
    /\ outcome = "failed after Create" => tmp.exists
    /\ bin' = IF outcome = "failed after Create"
              THEN [bin EXCEPT ![d.coreType] = Truncated]
              ELSE bin
    /\ tmp' = NoTmp
    /\ Return(d, ErrExtract, DetachAll(dl (-) Call(d)))
    /\ UNCHANGED <<nonCoreVars, page>>
    /\ UNCHANGED <<currentCore, cores, mu, statusFile, savers, calls, rf,
                   switchErr>>

\* lines 381-383 and 390-401: the Read that returns io.EOF, an extractCore
\* that succeeds, which it can only on a complete archive, os.Remove and
\* os.Chmod
DownloadExtract(d) ==
    /\ d.pc = "read"
    /\ d.written = TotalChunks
    /\ Extractable(d.coreType, tmp)
    /\ bin' = [bin EXCEPT ![d.coreType] = Content(tmp)]
    /\ tmp' = NoTmp
    /\ dl' = DetachAll(dl (-) Call(d))
                (+) Call([Detach(d) EXCEPT !.pc = "install"])
    /\ UNCHANGED <<nonCoreVars, page>>
    /\ UNCHANGED <<currentCore, cores, downloadProgress, mu, statusFile,
                   savers, calls, rf, switchErr>>

\* lines 403-406
DownloadInstall(d) ==
    /\ d.pc = "install"
    /\ CanLock
    /\ cores' = [cores EXCEPT
                    ![d.coreType].Installed = TRUE,
                    ![d.coreType].Version = cores[d.coreType].LatestVersion]
    /\ dl' = (dl (-) Call(d)) (+) Call([d EXCEPT !.pc = "save"])
    /\ UNCHANGED <<nonCoreVars, page>>
    /\ UNCHANGED <<currentCore, downloadProgress, mu, statusFile, bin, tmp,
                   savers, calls, rf, switchErr>>

\* line 409, saveStatus lines 110-120
DownloadSnapshot(d) ==
    /\ d.pc = "save"
    /\ CanRLock
    /\ dl' = (dl (-) Call(d))
                (+) Call([d EXCEPT !.pc = "write", !.saved = SavedCoreStatus])
    /\ UNCHANGED <<nonCoreVars, page>>
    /\ UNCHANGED <<currentCore, cores, downloadProgress, mu, statusFile, bin,
                   tmp, savers, calls, rf, switchErr>>

\* line 409, saveStatus lines 122-128, and line 412: the call returns nil
DownloadWrite(d) ==
    /\ d.pc = "write"
    /\ statusFile' = WriteFile(d.saved)
    /\ Return([d EXCEPT !.saved = NoFile], Nil, dl (-) Call(d))
    /\ UNCHANGED <<nonCoreVars, page>>
    /\ UNCHANGED <<currentCore, cores, mu, bin, tmp, savers, rf, calls,
                   switchErr>>

DownloadCore(d) ==
    \/ DownloadURLErr(d)
    \/ DownloadReturn(d)
    \/ \E resp \in Downloadables, created \in BOOLEAN :
           DownloadGetFailed(d, resp, created)
    \/ \E resp \in Downloadables : DownloadGet(d, resp)
    \/ DownloadChunk(d)
    \/ DownloadReadErr(d)
    \/ \E outcome \in ExtractFailures : DownloadExtractFailed(d, outcome)
    \/ DownloadExtract(d)
    \/ DownloadInstall(d)
    \/ DownloadSnapshot(d)
    \/ DownloadWrite(d)

Next ==
    \/ \E coreType \in CoreTypes : SwitchCore(coreType)
    \/ \E s \in BagToSet(savers) : SaverSnapshot(s)
    \/ \E s \in BagToSet(savers) : SaverWrite(s)
    \/ \E resp \in Responses : FetchMihomo(resp)
    \/ \E resp \in Responses : FetchSingbox(resp)
    \/ \E coreType \in CoreTypes :
           DownloadStart(coreType) /\ UNCHANGED page
    \/ \E d \in BagToSet(dl) : DownloadCore(d)

Spec == Init /\ [][Next]_vars

\* ====================================================================
\* The sing-box generator: initial states and operations
\* ====================================================================
\* the core manager as NewService leaves it in an empty data directory
CoreAtRest ==
    /\ statusFile = NoFile
    /\ bin = [e \in Engines |-> NoBin]
    /\ currentCore = NewService(statusFile, bin).currentCore
    /\ cores = NewService(statusFile, bin).cores
    /\ downloadProgress = [n \in {} |-> ZeroProgress]
    /\ mu = "unlocked"
    /\ tmp = NoTmp
    /\ savers = EmptyBag
    /\ calls = 0
    /\ dl = EmptyBag
    /\ rf = IdleRefresh
    /\ switchErr = NotCalled

GenInit ==
    \* a list of at most MaxNodes nodes
    /\ nodes \in UNION {[1..n -> NodeValues] : n \in 0..MaxNodes}
    \* ConfigGeneratorOptions: the zero value, or every field set
    /\ options \in {[MixedPort |-> 0, AllowLan |-> FALSE, EnableTUN |-> FALSE],
                    [MixedPort |-> 1080, AllowLan |-> TRUE, EnableTUN |-> TRUE]}
    /\ GeneratorAtRest
    /\ CoreAtRest
    /\ EditorAtRest
    /\ api = NoCall
    /\ logBuffer = << >>
    /\ page = [e \in Engines |-> IdlePage]

\* a call of GenerateConfig(nodes, options), lines 616-641; the call reads
\* and writes nothing SaveConfig touches, so it is taken between two saves
Generate ==
    /\ save.pc \in {"idle", "done"}
    /\ \E order \in RangeOrders :
        LET call == GenerateConfig(nodes, options, order) IN
        /\ previous' = document
        /\ document' = call.config
        /\ genErr' = call.err
    /\ UNCHANGED <<nodes, options, files, save>>
    /\ UNCHANGED <<coreVars, editorVars, api, logBuffer, page>>

\* SaveConfig(document, filename) up to os.WriteFile, lines 876-891
SaveStart(filename) ==
    /\ document # NoDocument
    /\ save.pc \in {"idle", "done"}
    /\ \/ save' = [IdleSave EXCEPT !.pc = "done", !.err = "os.MkdirAll"]
       \/ save' = [IdleSave EXCEPT !.pc = "open",
                                   !.data = MarshalIndent(document),
                                   !.filePath = FilePath(filename),
                                   !.before = files[FilePath(filename)]]
    /\ UNCHANGED <<nodes, options, document, previous, genErr, files>>
    /\ UNCHANGED <<coreVars, editorVars, api, logBuffer, page>>

\* os.WriteFile opens the path with O_WRONLY|O_CREATE|O_TRUNC, line 892
SaveOpen ==
    /\ save.pc = "open"
    /\ \/ /\ save' = [save EXCEPT !.pc = "done", !.err = "open"]
          /\ files' = files
       \/ /\ save' = [save EXCEPT !.pc = "write"]
          /\ files' = [files EXCEPT ![save.filePath] = << >>]
    /\ UNCHANGED <<nodes, options, document, previous, genErr>>
    /\ UNCHANGED <<coreVars, editorVars, api, logBuffer, page>>

\* os.WriteFile writes the data, line 892; the file system takes it in two
\* pieces
SaveWrite ==
    /\ save.pc = "write"
    /\ Len(files[save.filePath]) < Len(save.data)
    /\ \/ /\ save' = [save EXCEPT !.pc = "done", !.err = "write"]
          /\ files' = files
       \/ LET written == IF files[save.filePath] = << >>
                         THEN SubSeq(save.data, 1, Len(save.data) \div 2)
                         ELSE save.data
          IN
          /\ files' = [files EXCEPT ![save.filePath] = written]
          /\ save' = IF written = save.data
                     THEN [save EXCEPT !.pc = "done",
                                       !.result = save.filePath]
                     ELSE save
    /\ UNCHANGED <<nodes, options, document, previous, genErr>>
    /\ UNCHANGED <<coreVars, editorVars, api, logBuffer, page>>

GenNext ==
    \/ Generate
    \/ \E filename \in Filenames : SaveStart(filename)
    \/ SaveOpen
    \/ SaveWrite

SpecGen == GenInit /\ [][GenNext]_vars

\* ====================================================================
\* The configuration editor: initial states and operations
\* ====================================================================
EditInit ==
    /\ template \in LoadedTemplates
    /\ request = NoRequest
    /\ api = NoCall
    /\ logBuffer = << >>
    /\ page = [e \in Engines |-> IdlePage]
    /\ nodes = << >>
    /\ options = [MixedPort |-> 0, AllowLan |-> FALSE, EnableTUN |-> FALSE]
    /\ GeneratorAtRest
    /\ CoreAtRest

\* saveGroups up to the PUT, lines 240-241
PutGroups(groups) ==
    /\ request = NoRequest
    /\ request' = [url |-> "/proxy/template/groups", body |-> groups]
    /\ UNCHANGED <<template, coreVars, generatorVars, api, logBuffer, page>>

\* saveRules up to the PUT, lines 481-482
PutRules(rules) ==
    /\ request = NoRequest
    /\ request' = [url |-> "/proxy/template/rules", body |-> rules]
    /\ UNCHANGED <<template, coreVars, generatorVars, api, logBuffer, page>>

\* the delete button of a group (line 426): deleteGroup, lines 249-253
DeleteGroup ==
    \E i \in 1..Len(template.proxyGroups) :
        PutGroups(SelectSeq(template.proxyGroups,
                            LAMBDA g : g.name # template.proxyGroups[i].name))

\* the switch of a group, lines 387-394
ToggleGroup ==
    \E i \in 1..Len(template.proxyGroups) :
        PutGroups([j \in 1..Len(template.proxyGroups) |->
                      IF template.proxyGroups[j].name
                             = template.proxyGroups[i].name
                      THEN [template.proxyGroups[j] EXCEPT
                               !.enabled = ~isEnabled(template.proxyGroups[i])]
                      ELSE template.proxyGroups[j]])

\* "add group" (lines 255-265), a name typed into the dialog, save
AddGroup ==
    \E name \in GroupNames \cup {""} :
        /\ name # ""
        /\ PutGroups(saveEditingGroup(template, ProxyGroup(name, TRUE)))

\* the edit button of a group (line 420), a name typed into the dialog, save
EditGroup ==
    \E i \in 1..Len(template.proxyGroups), name \in GroupNames \cup {""} :
        /\ name # ""
        /\ PutGroups(saveEditingGroup(template,
               [template.proxyGroups[i] EXCEPT !.name = name]))

\* a group dragged onto another, lines 304-322
DropGroup ==
    \E dragIndex, dropIndex \in 1..Len(template.proxyGroups) :
        /\ dragIndex # dropIndex
        /\ PutGroups(InsertAt(RemoveAt(template.proxyGroups, dragIndex),
                              dropIndex, template.proxyGroups[dragIndex]))

\* the delete button of a rule (line 581): deleteRule, lines 491-495
DeleteRule ==
    \E index \in 1..Len(template.rules) :
        PutRules(RemoveAt(template.rules, index))

\* "add rule" (lines 497-506), the dialog filled in, save: lines 508-533
AddRule ==
    \E rule \in RuleInputs :
        /\ Len(template.rules) < MaxRules
        /\ ~(rule.payload = "" /\ rule.type # "MATCH")
        /\ PutRules(saveEditingRule(template, rule, 0))

\* the edit button of a rule (line 575), the dialog changed, save
EditRule ==
    \E index \in 1..Len(template.rules), rule \in RuleInputs :
        /\ ~(rule.payload = "" /\ rule.type # "MATCH")
        /\ PutRules(saveEditingRule(template, rule, index))

\* the response to the PUT: Handler.UpdateProxyGroups and Handler.UpdateRules
\* answer 200 when the service returns nil and an error status otherwise;
\* the page takes over what it sent on 200 only (lines 242, 483)
Respond ==
    /\ request # NoRequest
    /\ \E ok \in BOOLEAN :
          template' =
              IF ~ok THEN template
              ELSE IF request.url = "/proxy/template/groups"
              THEN [template EXCEPT !.proxyGroups = request.body]
              ELSE [template EXCEPT !.rules = request.body]
    /\ request' = NoRequest
    /\ UNCHANGED <<coreVars, generatorVars, api, logBuffer, page>>

EditNext ==
    \/ DeleteGroup
    \/ ToggleGroup
    \/ AddGroup
    \/ EditGroup
    \/ DropGroup
    \/ DeleteRule
    \/ AddRule
    \/ EditRule
    \/ Respond

SpecEdit == EditInit /\ [][EditNext]_vars

\* ====================================================================
\* The HTTP handlers
\* ====================================================================
ApiInit ==
    /\ api = NoCall
    \* the engine has written at most MaxLogLines lines
    /\ logBuffer \in UNION {[1..n -> LogLines] : n \in 0..MaxLogLines}
    /\ page = [e \in Engines |-> IdlePage]
    /\ nodes = << >>
    /\ options = [MixedPort |-> 0, AllowLan |-> FALSE, EnableTUN |-> FALSE]
    /\ GeneratorAtRest
    /\ CoreAtRest
    /\ EditorAtRest

\* GET /proxies through the bridge, lines 397-415
ProxyMihomoGetProxies ==
    \E controller \in {"", "10.0.0.2:9090"}, upstream \in Upstreams :
        /\ api' = [handler |-> "ProxyMihomoGetProxies",
                   controller |-> controller,
                   method |-> "GET",
                   url |-> <<"http://", apiAddr(controller), "/proxies">>,
                   upstream |-> upstream,
                   reply |-> Relay(upstream)]
        /\ UNCHANGED <<coreVars, generatorVars, editorVars, logBuffer, page>>

\* GET /proxies/:name through the bridge, lines 418-437
ProxyMihomoGetProxy ==
    \E controller \in {"", "10.0.0.2:9090"}, upstream \in Upstreams,
       name \in {"GLOBAL", "node-select"} :
        /\ api' = [handler |-> "ProxyMihomoGetProxy",
                   controller |-> controller,
                   method |-> "GET",
                   url |-> <<"http://", apiAddr(controller), "/proxies/",
                             name>>,
                   upstream |-> upstream,
                   reply |-> Relay(upstream)]
        /\ UNCHANGED <<coreVars, generatorVars, editorVars, logBuffer, page>>

\* PUT /proxies/:name through the bridge, lines 440-464: the body of the
\* caller's request is read and sent on
ProxyMihomoSelectProxy ==
    \E controller \in {"", "10.0.0.2:9090"}, upstream \in Upstreams,
       name \in {"GLOBAL", "node-select"},
       body \in {<<"{\"name\":\"ss\"}">>, << >>} :
        /\ api' = [handler |-> "ProxyMihomoSelectProxy",
                   controller |-> controller,
                   method |-> "PUT",
                   url |-> <<"http://", apiAddr(controller), "/proxies/",
                             name>>,
                   body |-> body,
                   upstream |-> upstream,
                   reply |-> Relay(upstream)]
        /\ UNCHANGED <<coreVars, generatorVars, editorVars, logBuffer, page>>

\* GET /proxies/:name/delay through the bridge, lines 467-498, with the
\* defaults of the two query parameters
ProxyMihomoTestDelay ==
    \E controller \in {"", "10.0.0.2:9090"}, upstream \in Upstreams,
       name \in {"GLOBAL", "node-select"},
       query \in {[url |-> "", timeout |-> ""],
                   [url |-> "http://cp.cloudflare.com", timeout |-> "3000"]} :
        /\ api' = [handler |-> "ProxyMihomoTestDelay",
                   controller |-> controller,
                   method |-> "GET",
                   url |-> <<"http://", apiAddr(controller), "/proxies/",
                             name, "/delay?url=",
                             IF query.url = ""
                             THEN "http://www.gstatic.com/generate_204"
                             ELSE query.url,
                             "&timeout=",
                             IF query.timeout = "" THEN "5000"
                             ELSE query.timeout>>,
                   upstream |-> upstream,
                   reply |-> Relay(upstream)]
        /\ UNCHANGED <<coreVars, generatorVars, editorVars, logBuffer, page>>

\* GET /logs, lines 260-298; a query parameter is absent or has a value
GetLogs ==
    \E limitQuery \in {[set |-> FALSE, v |-> << >>]}
                      \cup {[set |-> TRUE, v |-> v] :
                               v \in {<< >>, <<"1">>, <<"+", "2">>, <<"0">>,
                                      <<"-", "1">>, <<"1", "x">>}},
       levelQuery \in {[set |-> FALSE, v |-> ""]}
                      \cup {[set |-> TRUE, v |-> v] :
                               v \in {"all", "error", "warn", "info",
                                      "debug"}} :
        LET \* c.DefaultQuery: the default only when the key is absent
            limitStr == IF limitQuery.set THEN limitQuery.v
                        ELSE <<"2", "0", "0">>
            level == IF levelQuery.set THEN levelQuery.v ELSE "all"
            l == Atoi(limitStr)
            limit == IF l.err = Nil /\ l.val > 0 THEN l.val ELSE 200
            lines == serviceGetLogs(logBuffer, limit)
        IN  /\ api' = [handler |-> "GetLogs",
                       limitQuery |-> limitQuery,
                       levelQuery |-> levelQuery,
                       limit |-> limit,
                       reply |-> [status |-> 200,
                                  body |-> [code |-> 0,
                                            message |-> "success",
                                            data |-> filterLogs(lines, level)]]]
            /\ UNCHANGED <<coreVars, generatorVars, editorVars, logBuffer, page>>

ApiNext ==
    \/ GetLogs
    \/ ProxyMihomoGetProxies
    \/ ProxyMihomoGetProxy
    \/ ProxyMihomoSelectProxy
    \/ ProxyMihomoTestDelay

SpecApi == ApiInit /\ [][ApiNext]_vars

\* ====================================================================
\* The core-management page and the downloads it triggers
\* ====================================================================
\* downloadCore of the page up to the return of the POST, lines 91-100,
\* and the download handler, which starts DownloadCore on a goroutine of
\* its own and answers at once; a POST that fails ends the run with the
\* error toast
DownloadPost(e, ok) ==
    /\ page[e].pc = "idle"
    /\ calls + page[CoreTypeMihomo].spawned + page[CoreTypeSingbox].spawned
           < MaxCalls
    /\ page' = [page EXCEPT ![e] =
                   IF ok
                   THEN [pc |-> "polling", spawned |-> @.spawned + 1,
                         result |-> ""]
                   ELSE [@ EXCEPT !.result = "failed"]]
    /\ UNCHANGED <<coreVars, nonCoreVars>>

\* the goroutine of the handler enters DownloadCore
DownloadSpawned(e) ==
    /\ page[e].spawned > 0
    /\ page' = [page EXCEPT ![e].spawned = @ - 1]
    /\ DownloadStart(e)

\* checkProgress, lines 105-127, with GetDownloadProgress, lines 516-524:
\* the run ends when the record read says that nothing is downloading,
\* with the error toast when the record has an error and with "download
\* complete" otherwise (lines 133-134); else the page asks again later
checkProgress(e) ==
    /\ page[e].pc = "polling"
    /\ CanRLock
    /\ LET progress == GetDownloadProgress(e)
       IN  page' = IF ~progress.Downloading
                   THEN [page EXCEPT ![e].pc = "idle",
                                     ![e].result = IF progress.Error # ""
                                                   THEN "failed"
                                                   ELSE "complete"]
                   ELSE page
    /\ UNCHANGED <<coreVars, nonCoreVars>>

PageNext ==
    \/ \E e \in Engines, ok \in BOOLEAN : DownloadPost(e, ok)
    \/ \E e \in Engines : DownloadSpawned(e)
    \/ \E e \in Engines : checkProgress(e)
    \/ \E resp \in Responses : FetchMihomo(resp)
    \/ \E resp \in Responses : FetchSingbox(resp)
    \/ \E d \in BagToSet(dl) : DownloadCore(d)

SpecPage == Init /\ [][PageNext]_vars

\* ====================================================================
\* Properties
\* ====================================================================
\* a step with which the call d returns an error
ReturnsError(d) ==
    /\ CanLock
    /\ \/ DownloadReturn(d) /\ d.err # Nil
       \/ \E resp \in Downloadables, created \in BOOLEAN :
              DownloadGetFailed(d, resp, created)
       \/ DownloadReadErr(d)
       \/ \E outcome \in ExtractFailures : DownloadExtractFailed(d, outcome)

\* Installed and Version of every engine
Installation == [e \in Engines |-> <<cores[e].Installed, cores[e].Version>>]

\* C1: SwitchCore on an unknown or not-installed engine returns an error and
\* leaves currentCore unchanged; on an installed engine it returns nil and
\* GetStatus reports that engine; currentCore changes in no other step, so
\* GetStatus keeps reporting it until the next successful SwitchCore.
C1_SwitchCoreContract ==
    [][ /\ \A coreType \in CoreTypes :
             SwitchCore(coreType) =>
               IF coreType \in Engines /\ cores[coreType].Installed
               THEN switchErr' = Nil /\ GetStatus'.CurrentCore = coreType
               ELSE switchErr' \notin {Nil, NotCalled}
                    /\ GetStatus'.CurrentCore = GetStatus.CurrentCore
        /\ GetStatus'.CurrentCore # GetStatus.CurrentCore =>
             \E coreType \in Engines :
                SwitchCore(coreType) /\ switchErr' = Nil ]_vars

\* a successful switch from the reloaded sing-box to Mihomo, its save pending
C1_Witness ==
    /\ switchErr = Nil
    /\ BagCardinality(savers) > 0
    /\ statusFile.readable /\ statusFile.CurrentCore = CoreTypeSingbox
    /\ GetStatus.CurrentCore = CoreTypeMihomo

\* C2: at most one DownloadCore call per engine is in flight.
C2_OneDownloadPerEngine ==
    \A d \in BagToSet(dl) :
        /\ CopiesIn(d, dl) = 1
        /\ \A o \in BagToSet(dl) \ {d} : o.coreType # d.coreType

\* C3: a DownloadCore call that returns an error has changed neither Installed
\* nor Version of any engine (only the install step changes them, and a call
\* that has taken it does not return an error) nor a binary that is there
\* (only a successful extraction replaces one).
C3_FailedDownloadKeepsInstallation ==
    [][ /\ \A coreType \in CoreTypes :
             DownloadStart(coreType) =>
                Installation' = Installation /\ bin' = bin
        /\ \A d \in BagToSet(dl) :
             /\ (DownloadCore(d) /\ ~DownloadInstall(d)) =>
                   Installation' = Installation
             /\ ReturnsError(d) => d.pc \notin {"install", "save", "write"}
             /\ (DownloadCore(d) /\ ~DownloadExtract(d)) =>
                   \A e \in Engines : bin[e] # NoBin => bin'[e] = bin[e] ]_vars

\* C4: when DownloadCore returns an error and no other call is in flight, the
\* progress entry has Downloading = false and a non-empty Error, and
\* download.tmp does not exist.
C4_FailedDownloadRecorded ==
    [][ \A d \in BagToSet(dl) :
          (dl = Call(d) /\ ReturnsError(d)) =>
             /\ ~Lookup(downloadProgress', d.coreType).Downloading
             /\ Lookup(downloadProgress', d.coreType).Error # ""
             /\ ~tmp'.exists ]_vars

\* C5: Progress of an engine is 0 after the step that starts a download of
\* it, and no other step makes it smaller.
C5_ProgressMonotonic ==
    [][ \A e \in CoreTypes :
          IF DownloadStart(e)
          THEN GetDownloadProgress(e)'.Progress = 0
          ELSE GetDownloadProgress(e)'.Progress >= GetDownloadProgress(e).Progress
      ]_vars

\* C6: a DownloadCore call that finds LatestVersion empty takes the error
\* "version not found" and from there only records the error and returns:
\* it makes no request and changes no file, Installed or Version.
C6_VersionUnknown ==
    [][ /\ \A e \in Engines :
             (cores[e].LatestVersion = NoVersion /\ DownloadStart(e)) =>
                /\ \E d \in BagToSet(dl') :
                      /\ dl' = dl (+) Call(d)
                      /\ d.coreType = e
                      /\ d.pc = "urlerr"
                      /\ d.err = ErrVersionNotFound
                /\ UNCHANGED <<bin, tmp, statusFile, cores>>
        /\ \A d \in BagToSet(dl) :
             (d.err = ErrVersionNotFound /\ DownloadCore(d)) =>
                /\ DownloadURLErr(d) \/ DownloadReturn(d)
                /\ UNCHANGED <<bin, tmp, statusFile, cores>> ]_vars

\* such a call has returned: the error is in the entry, Mihomo not installed
C6_Witness ==
    /\ dl = EmptyBag
    /\ GetDownloadProgress(CoreTypeMihomo).Error = ErrVersionNotFound
    /\ ~GetDownloadProgress(CoreTypeMihomo).Downloading
    /\ cores[CoreTypeMihomo].LatestVersion = NoVersion
    /\ ~cores[CoreTypeMihomo].Installed

\* C7: no DownloadCore call reads a catalog entry that does not exist.
C7_NoNilDereference ==
    \A d \in BagToSet(dl) : d.pc # "panic"

\* C8: a fetch of GetLatestVersions changes nothing but LatestVersion of its
\* engine; it sets it to the released version when the query succeeded and
\* leaves it as it was when the query failed.
QuerySucceeded(resp) == resp.err = Nil /\ resp.status = 200

FetchContract(e, resp) ==
    /\ currentCore' = currentCore
    /\ \A o \in Engines :
         cores'[o] = [cores[o] EXCEPT !.LatestVersion = cores'[o].LatestVersion]
    /\ \A o \in Engines \ {e} : cores'[o] = cores[o]
    /\ cores'[e].LatestVersion =
         IF QuerySucceeded(resp) THEN TrimV(resp.TagName)
         ELSE cores[e].LatestVersion

C8_RefreshChangesOnlyLatest ==
    [][ \A resp \in Responses :
          /\ FetchMihomo(resp) => FetchContract(CoreTypeMihomo, resp)
          /\ FetchSingbox(resp) => FetchContract(CoreTypeSingbox, resp) ]_vars

\* C9: a service constructed from the files as they are has Installed = false
\* for every engine whose binary is absent, whatever version core_status.json
\* lists for it.
C9_MissingBinaryNotInstalled ==
    \A e \in Engines :
        (/\ statusFile.readable
         /\ e \in DOMAIN statusFile.Versions
         /\ statusFile.Versions[e] # NoVersion
         /\ bin[e] = NoBin) =>
            ~NewService(statusFile, bin).cores[e].Installed

\* C10: when the last SwitchCore call succeeded and no saveStatus is running,
\* core_status.json holds the currentCore that is in memory.
C10_SwitchPersisted ==
    (/\ switchErr = Nil
     /\ savers = EmptyBag
     /\ \A d \in BagToSet(dl) : d.pc \notin {"save", "write"}) =>
        /\ statusFile.readable
        /\ statusFile.CurrentCore = currentCore

\* ------------------------------------------------ the sing-box generator
\* the protocol tag in effect: the payload's when the payload is read
ProtocolTag(node) ==
    IF node.Config # NoConfig /\ Unmarshal(node.Config).err = Nil
    THEN StringOf(Unmarshal(node.Config).config, "type")
    ELSE node.Type

\* the tag is none of those the generator knows
Unrecognised(node) == FamilyOf(ToLower(ProtocolTag(node))) = ""

\* the node has a translation
Supported(node) ==
    \E order \in RangeOrders : convertProxyNode(node, order) # NilPtr

\* the nodes of the list that have a translation, in the order of the list
Kept(nodeList) == SelectSeq(nodeList, LAMBDA node : Supported(node))

Names(nodeList) == [i \in 1..Len(nodeList) |-> nodeList[i].Name]

\* C11: a node with an unrecognised protocol tag has no translation; the
\* document starts with the translations of the other nodes, in the order of
\* the list, the selector and the urltest group list exactly their names, and
\* GenerateConfig returns the document with a nil error.
C11_UnsupportedNodeDropped ==
    document # NoDocument =>
        LET kept == Kept(nodes)
            outbounds == document.Outbounds
        IN  /\ genErr = Nil
            /\ \A i \in 1..Len(nodes) :
                   Unrecognised(nodes[i]) => ~Supported(nodes[i])
            /\ Len(outbounds) =
                   Len(kept) + (IF kept = << >> THEN 0 ELSE 2) + 3
            /\ \A i \in 1..Len(kept) :
                   \E order \in RangeOrders :
                       outbounds[i] = convertProxyNode(kept[i], order)
            /\ kept # << >> =>
                   /\ outbounds[Len(kept) + 1].Outbounds
                          = <<"auto">> \o Names(kept)
                   /\ outbounds[Len(kept) + 2].Outbounds = Names(kept)

\* a document generated from a list of a node with an unrecognised tag and a
\* node that has a translation
C11_Witness ==
    /\ document # NoDocument
    /\ Len(nodes) = 2
    /\ Unrecognised(nodes[1])
    /\ Supported(nodes[2])
    /\ document.Outbounds[1].Tag = nodes[2].Name

\* C12: every node that has a translation appears as an outbound with the
\* node's server host and port and with the node's protocol family as type,
\* payload or not.
C12_StructuralRoundTrip ==
    document # NoDocument =>
        \A i \in 1..Len(Kept(nodes)) :
            LET node == Kept(nodes)[i]
                outbound == document.Outbounds[i]
            IN  /\ outbound.Server = node.Server
                /\ outbound.ServerPort = node.Port
                /\ outbound.Type = FamilyOf(ToLower(node.Type))

\* C13: the list of the one shadowsocks node with cipher aes-256-gcm,
\* password secret, server example.com and port 8443 gives a shadowsocks
\* outbound with exactly these method, password, server and server_port.
C13_ShadowsocksScenario ==
    (/\ document # NoDocument
     /\ Len(nodes) = 1
     /\ nodes[1].Config = ShadowsocksPayload) =>
        /\ document.Outbounds[1].Tag = nodes[1].Name
        /\ document.Outbounds[1].Type = "shadowsocks"
        /\ document.Outbounds[1].Method = "aes-256-gcm"
        /\ document.Outbounds[1].Password = "secret"
        /\ document.Outbounds[1].Server = "example.com"
        /\ document.Outbounds[1].ServerPort = 8443
        /\ MarshalIndent(document)[4][2][1] =
               << <<"type", "shadowsocks">>, <<"tag", nodes[1].Name>>,
                  <<"server", "example.com">>, <<"server_port", 8443>>,
                  <<"method", "aes-256-gcm">>, <<"password", "secret">> >>

\* the document generated from the list of the one shadowsocks node
C13_Witness ==
    /\ document # NoDocument
    /\ Len(nodes) = 1
    /\ nodes[1].Config = ShadowsocksPayload
    /\ document.Outbounds[1].Method = "aes-256-gcm"

\* C14: in every outbound written with a TLS section, server_name is the
\* node's server host when the payload has no sni or an empty one, and
\* insecure is false when the payload has no skip-cert-verify key.
C14_TLSDefaults ==
    document # NoDocument =>
        \A i \in 1..Len(Kept(nodes)) :
            LET node == Kept(nodes)[i]
                payload == Unmarshal(node.Config).config
                outbound == document.Outbounds[i]
            IN  outbound.TLS # NilPtr =>
                    /\ outbound.TLS.Enabled
                    /\ StringOf(payload, "sni") = "" =>
                           outbound.TLS.ServerName = node.Server
                    /\ "skip-cert-verify" \notin DOMAIN payload =>
                           ~outbound.TLS.Insecure

\* C15: a call of GenerateConfig returns the document the call before it
\* returned for the same node list and options, and a SaveConfig that
\* replaces the saved document of the call before leaves the file as it was.
C15_Idempotent ==
    previous # NoDocument =>
        /\ document = previous
        /\ (/\ save.pc = "done"
            /\ save.err = Nil
            /\ save.before = MarshalIndent(previous)) =>
               files[save.filePath] = save.before

\* the document with a header map has been generated twice, saved, and saved
\* again over the first file
C15_Witness ==
    /\ previous # NoDocument
    /\ \E i \in 1..Len(nodes) : nodes[i].Config = VMessPayload
    /\ save.pc = "done"
    /\ save.err = Nil
    /\ save.before = MarshalIndent(previous)
    /\ files[save.filePath] = MarshalIndent(document)

\* C16: for the empty node list GenerateConfig returns, with a nil error, a
\* document whose outbounds are the direct, block and dns outbounds and
\* nothing else, and whose route rules are the five baseline rules, which
\* send traffic to these three outbounds only.
C16_EmptyNodeList ==
    (document # NoDocument /\ nodes = << >>) =>
        /\ genErr = Nil
        /\ [i \in 1..Len(document.Outbounds) |->
               <<document.Outbounds[i].Type, document.Outbounds[i].Tag>>]
             = << <<"direct", "direct">>, <<"block", "block">>,
                  <<"dns", "dns-out">> >>
        /\ [i \in 1..Len(document.Route.Rules) |->
               document.Route.Rules[i].Outbound]
             = <<"dns-out", "direct", "direct", "direct", "block">>

\* a document generated from the empty node list
C16_Witness ==
    /\ document # NoDocument
    /\ nodes = << >>
    /\ Len(document.Outbounds) = 3

\* the content is a whole document: all sections of SingboxConfig
Complete(content) == Len(content) = Len(TagsOf("SingboxConfig"))

\* C17: at every moment the file at a configuration path is absent or holds
\* a complete document, never an empty or partly written one.
C17_AtomicReplace ==
    \A p \in DOMAIN files : files[p] = NoConfigFile \/ Complete(files[p])

\* C20: the outbound tags of a generated document are pairwise distinct.
C20_DistinctTags ==
    document # NoDocument =>
        \A i, j \in 1..Len(document.Outbounds) :
            i # j => document.Outbounds[i].Tag # document.Outbounds[j].Tag

\* ------------------------------------------- the configuration editor
\* the template as the PUT in flight would leave it
Submitted ==
    IF request.url = "/proxy/template/groups"
    THEN [template EXCEPT !.proxyGroups = request.body]
    ELSE [template EXCEPT !.rules = request.body]

EnabledNames(tpl) ==
    {tpl.proxyGroups[i].name :
        i \in {j \in 1..Len(tpl.proxyGroups) : isEnabled(tpl.proxyGroups[j])}}

\* C18: whenever the editor submits groups or rules, every rule of the
\* template as submitted targets a group that is among its enabled groups.
C18_RuleTargetsEnabledGroup ==
    request # NoRequest =>
        \A i \in 1..Len(Submitted.rules) :
            Submitted.rules[i].proxy \in EnabledNames(Submitted)

\* the positions of the catch-all rules
MatchRules(rules) == {i \in 1..Len(rules) : rules[i].type = "MATCH"}

\* C19: a rule list the editor submits has at most one MATCH rule, and a
\* MATCH rule is its last rule.
C19_OneCatchAllLast ==
    request.url = "/proxy/template/rules" =>
        /\ Cardinality(MatchRules(request.body)) <= 1
        /\ \A i \in MatchRules(request.body) : i = Len(request.body)

\* ------------------------------------------------- the HTTP handlers
\* the last call was one through the bridge to the engine's controller
Bridged ==
    api.handler \in {"ProxyMihomoGetProxies", "ProxyMihomoGetProxy",
                     "ProxyMihomoSelectProxy", "ProxyMihomoTestDelay"}

\* the connection to the controller failed: before the response began, or
\* before the body the controller sent had arrived
ConnectionFailed ==
    \/ api.upstream.err # Nil
    \/ api.upstream.read < Len(api.upstream.body)

\* C21: a bridged call goes to the configured controller address, or to
\* 127.0.0.1:9090 when none is configured; when the controller answers,
\* the caller gets its status and its body unchanged; when the connection
\* fails, the caller gets 503 with code 1 and the "API unavailable"
\* message, which no relayed response is.
C21_BridgeContract ==
    Bridged =>
        /\ api.url[2] = (IF api.controller = "" THEN "127.0.0.1:9090"
                         ELSE api.controller)
        /\ ~ConnectionFailed =>
               /\ api.reply.status = api.upstream.status
               /\ api.reply.body = api.upstream.body
        /\ ConnectionFailed =>
               /\ api.reply.status = 503
               /\ api.reply.body[1] =
                      "{\"code\":1,\"message\":\"Mihomo API unavailable: "

\* C24: GetLogs answers with the most recent N lines of the buffer, oldest
\* first, where N is the limit parameter, or 200 when that is absent, not
\* a number or not positive; with level error, warn or info exactly the
\* lines with one of the level's markers stay, in their order, and with
\* any other level all of them.
C24_RecentLinesFiltered ==
    api.handler = "GetLogs" =>
        LET N == CASE api.limitQuery = [set |-> TRUE, v |-> <<"1">>] -> 1
                   [] api.limitQuery = [set |-> TRUE, v |-> <<"+", "2">>] -> 2
                   [] OTHER -> 200
            n == IF N < Len(logBuffer) THEN N ELSE Len(logBuffer)
            recent == [i \in 1..n |-> logBuffer[Len(logBuffer) - n + i]]
            level == IF api.levelQuery.set THEN api.levelQuery.v ELSE "all"
            markers ==
                CASE level = "error" -> {<<"E", "R", "R">>,
                                         <<"F", "A", "T", "A">>,
                                         <<"e", "r", "r", "o", "r">>}
                  [] level = "warn" -> {<<"W", "A", "R", "N">>,
                                        <<"w", "a", "r", "n", "i", "n", "g">>}
                  [] level = "info" -> {<<"I", "N", "F", "O">>,
                                        <<"i", "n", "f", "o">>}
                  [] OTHER -> {<< >>}
            kept == {i \in 1..n : \E m \in markers : Contains(recent[i], m)}
            data == api.reply.body.data
        IN  /\ api.limit = N
            /\ Len(data) = Cardinality(kept)
            /\ \A k \in 1..Len(data) :
                   data[k] = recent[CHOOSE i \in kept :
                                        Cardinality({j \in kept : j <= i}) = k]

\* a call with level=error that kept the newer of two lines and left out
\* the older one
C24_Witness ==
    /\ api.handler = "GetLogs"
    /\ api.levelQuery = [set |-> TRUE, v |-> "error"]
    /\ api.limit = 200
    /\ Len(logBuffer) = 2
    /\ api.reply.body.data = <<logBuffer[2]>>
    /\ logBuffer[1] # logBuffer[2]

\* ------------------------------------------------------ the core manager
\* C22: no operation holds the write lock of s.mu across blocking I/O, so
\* that while a download or a query for the latest releases is under way
\* GetStatus and GetDownloadProgress can take their read lock.
C22_ReadersNotBlocked ==
    (dl # EmptyBag \/ rf # IdleRefresh) => CanRLock

\* ------------------------------------------------ the sing-box generator
\* the payload of the node is read: it is there and parses as an object
PayloadRead(node) ==
    node.Config # NoConfig /\ Unmarshal(node.Config).err = Nil

\* the translation of a node with a payload that is read does not depend on
\* the node's own type, server and port
C23_PayloadAlone ==
    document # NoDocument =>
        \A i \in 1..Len(nodes), order \in RangeOrders :
            PayloadRead(nodes[i]) =>
                convertProxyNode(nodes[i], order) =
                    convertProxyNode([nodes[i] EXCEPT !.Type = "http",
                                                      !.Server = "192.0.2.9",
                                                      !.Port = 9], order)

\* the translation of a node without a payload that is read has the family
\* of the node's type, and the node's server and port
C23_TopLevelFallback ==
    document # NoDocument =>
        \A i \in 1..Len(nodes), order \in RangeOrders :
            LET outbound == convertProxyNode(nodes[i], order)
            IN  (~PayloadRead(nodes[i]) /\ outbound # NilPtr) =>
                    /\ outbound.Type = FamilyOf(ToLower(nodes[i].Type))
                    /\ outbound.Server = nodes[i].Server
                    /\ outbound.ServerPort = nodes[i].Port

\* C23: with a payload that parses as a JSON object the outbound is built
\* from the payload alone; with no payload, or one that is not valid JSON,
\* it is built from the node's type, server and port; and a node whose own
\* protocol tag is supported is in the document, payload or not.
C23_PayloadPrecedence ==
    /\ C23_PayloadAlone
    /\ C23_TopLevelFallback
    /\ document # NoDocument =>
           \A i \in 1..Len(nodes) :
               FamilyOf(ToLower(nodes[i].Type)) # "" =>
                   \E j \in 1..Len(document.Outbounds) :
                       document.Outbounds[j].Tag = nodes[i].Name

\* C27: in every generated document each outbound tag that a route rule,
\* the route's final outbound, a DNS server's detour or a group's member
\* list or default names is the tag of an outbound of the document.
C27_ReferencesResolve ==
    document # NoDocument =>
        LET outbounds == document.Outbounds
            tags == {outbounds[i].Tag : i \in 1..Len(outbounds)}
            rules == document.Route.Rules
            servers == document.DNS.Servers
        IN  /\ \A i \in 1..Len(rules) : rules[i].Outbound \in tags
            /\ document.Route.FinalOutbound \in tags
            /\ \A i \in 1..Len(servers) :
                   servers[i].Detour # "" => servers[i].Detour \in tags
            /\ \A i \in 1..Len(outbounds) :
                   outbounds[i].Type \in {"selector", "urltest"} =>
                       /\ \A j \in 1..Len(outbounds[i].Outbounds) :
                              outbounds[i].Outbounds[j] \in tags
                       /\ outbounds[i].Default # "" =>
                              outbounds[i].Default \in tags

\* ------------------------------------------------------ the core manager
\* the downloads in flight are of pairwise different engines
DifferentEngines ==
    \A d \in BagToSet(dl) :
        /\ CopiesIn(d, dl) = 1
        /\ \A other \in BagToSet(dl) :
               other # d => other.coreType # d.coreType

\* the temporary file holds what the call d has written to it so far
Intact(d, file) ==
    /\ d.pc = "read"
    /\ d.attached
    /\ file.exists
    /\ d.written <= Len(file.data)
    /\ \A k \in 1..d.written : file.data[k] = Release(d.coreType, d.version)

\* a step in which the download d does not move leaves d's temporary file
\* as d has written it
C25_TemporaryFileUntouched ==
    [][DifferentEngines =>
          \A d \in BagToSet(dl) :
              Intact(d, tmp) =>
                  \A after \in BagToSet(dl') :
                      (/\ after.coreType = d.coreType
                       /\ after.pc = d.pc
                       /\ after.written = d.written) => Intact(after, tmp')]_vars

\* the binary of an engine comes from an archive downloaded for that engine
C25_OwnArchive ==
    \A e \in Engines : bin[e].eng \in {NoBin.eng, Truncated.eng, e}

\* C25: downloads of two different engines that run at the same time do
\* not interfere: the binary of each is extracted from the bytes downloaded
\* for it, and no download overwrites, truncates or removes the temporary
\* file of the other.
C25_DownloadsIndependent ==
    /\ []C25_OwnArchive
    /\ C25_TemporaryFileUntouched

\* C26: a DownloadCore call that has installed its engine has recorded, as
\* the engine's Version, the version whose archive it resolved and
\* downloaded, whatever GetLatestVersions did to LatestVersion meanwhile.
C26_InstalledVersionIsDownloaded ==
    DifferentEngines =>
        \A d \in BagToSet(dl) :
            d.pc \in {"save", "write"} =>
                cores[d.coreType].Version = d.version

\* -------------------------------------------- the core-management page
\* C28: the page says "download complete" for an engine only when the
\* download it triggered has finished and has succeeded: never on a record
\* read before the backend marked the download as started, on the record
\* of an earlier download, or after a download that failed.
C28_CompleteMeansSucceeded ==
    \A e \in Engines :
        page[e].result = "complete" =>
            /\ page[e].spawned = 0
            /\ \A d \in BagToSet(dl) : d.coreType # e
            /\ cores[e].Installed

\* ------------------------------------------------------ the core manager
\* the number of DownloadCore calls for the engine e that have not returned
InFlight(e, bag) ==
    LET ds == {d \in BagToSet(bag) : d.coreType = e}
        RECURSIVE Sum(_)
        Sum(S) == IF S = {} THEN 0
                  ELSE LET d == CHOOSE x \in S : TRUE
                       IN  CopiesIn(d, bag) + Sum(S \ {d})
    IN  Sum(ds)

\* a step with which a DownloadCore call for e returns leaves e's
\* Downloading flag false
C29_ReturnClearsFlag ==
    [][\A e \in Engines :
           InFlight(e, dl') < InFlight(e, dl) =>
               ~Lookup(downloadProgress', e).Downloading]_vars

\* while exactly one download of e is in flight, e's flag is true
C29_FlagWhileInFlight ==
    \A e \in Engines :
        InFlight(e, dl) = 1 => GetDownloadProgress(e).Downloading

\* C29: a DownloadCore call that returns leaves the engine's Downloading
\* flag false, and while exactly one download of an engine is in flight
\* the flag is true, so that a client that polls until the flag is false
\* stops when the download has ended and not before.
C29_DownloadingFlag ==
    /\ C29_ReturnClearsFlag
    /\ []C29_FlagWhileInFlight

\* no step takes an engine's Installed flag from true to false
C30_InstalledStays ==
    [][\A e \in Engines : cores[e].Installed => cores'[e].Installed]_vars

\* when the last SwitchCore has succeeded currentCore names an installed
\* engine
C30_CurrentInstalled ==
    switchErr = Nil => cores[currentCore].Installed

\* once currentCore names an installed engine it does so after every step
C30_CurrentStaysInstalled ==
    [][cores[currentCore].Installed => cores'[currentCore'].Installed]_vars

\* C30: within one service lifetime no operation changes an engine's
\* Installed flag from true to false; hence, once a SwitchCore call has
\* succeeded, currentCore names an installed engine in every later state.
C30_InstalledNeverRevoked ==
    /\ C30_InstalledStays
    /\ []C30_CurrentInstalled
    /\ C30_CurrentStaysInstalled

\* a switch to Mihomo has succeeded and a download of Mihomo has failed since
C30_Witness ==
    /\ switchErr = Nil
    /\ currentCore = CoreTypeMihomo
    /\ CoreTypeMihomo \in DOMAIN downloadProgress
    /\ ~downloadProgress[CoreTypeMihomo].Downloading
    /\ bin[CoreTypeMihomo] = Truncated
    /\ dl = EmptyBag

=============================================================================
